---------------------------- MODULE Spec2Model ----------------------------
(***************************************************************************)
(* Flock VM: the bytecode interpreter (flock_vm/src/lib.rs, Task), the     *)
(* multi-threaded executor with fork/join (Vm, Executor) and the per-      *)
(* thread work-stealing queue (flock_vm/src/task_queue.rs, TaskQueue).     *)
(*                                                                         *)
(* Machine words are modelled with WordBits bits instead of 64: usize is   *)
(* 0 .. UsizeMax and i64 is I64Min .. I64Max, casts and wrapping addition  *)
(* are computed modulo 2^WordBits.                                         *)
(***************************************************************************)
EXTENDS Integers, Sequences, FiniteSets, TLC

----------------------------------------------------------------------------
(* Bounds of the model *)

\* width of usize / i64 in the model
WordBits == 5

\* number of executor threads spawned by Vm::run (num_cpus::get())
NumWorkers == 2

\* number of items the queue clients push in QSpec
MaxPush == 3

\* length of the stacks a task starts with in TSpec
MaxStack == 2

\* number of ticks of a task in TSpec
MaxTicks == 6

----------------------------------------------------------------------------
(* Machine integers *)

RECURSIVE Pow2(_)
Pow2(n) == IF n = 0 THEN 1 ELSE 2 * Pow2(n - 1)

Modulus == Pow2(WordBits)
UsizeMax == Modulus - 1
I64Max == Pow2(WordBits - 1) - 1
I64Min == -Pow2(WordBits - 1)

\* mutant of AsUsize: a negative value becomes 0
AsUsize_Clamped(x) == IF x < 0 THEN 0 ELSE x

\* `x as usize` for an i64 x (two's complement reinterpretation)
AsUsize(x) == x % Modulus

\* `x as i64` for a usize x
AsI64(x) == IF (x % Modulus) > I64Max THEN (x % Modulus) - Modulus ELSE x % Modulus

\* a.overflowing_add(b).0
\* mutant of OverflowingAdd: the difference instead of the sum
OverflowingAdd_Sub(a, b) == AsI64(a - b)

OverflowingAdd(a, b) == AsI64(a + b)

----------------------------------------------------------------------------
(* Bytecode *)

ZERO == "ZERO"
FORK == "FORK"

OpPush(v) == [op |-> "Push", arg |-> v, flags |-> {}, has_target |-> FALSE]
OpAdd == [op |-> "Add", arg |-> 0, flags |-> {}, has_target |-> FALSE]
OpDumpDebug == [op |-> "DumpDebug", arg |-> 0, flags |-> {}, has_target |-> FALSE]
OpJump(fl, t) == [op |-> "Jump", arg |-> t, flags |-> fl, has_target |-> TRUE]
OpJumpPop(fl) == [op |-> "Jump", arg |-> 0, flags |-> fl, has_target |-> FALSE]
OpJsr(t) == [op |-> "JumpToSubroutine", arg |-> t, flags |-> {}, has_target |-> TRUE]
OpJsrPop == [op |-> "JumpToSubroutine", arg |-> 0, flags |-> {}, has_target |-> FALSE]
OpBury(i) == [op |-> "Bury", arg |-> i, flags |-> {}, has_target |-> FALSE]
OpDredge(i) == [op |-> "Dredge", arg |-> i, flags |-> {}, has_target |-> FALSE]
OpDuplicate == [op |-> "Duplicate", arg |-> 0, flags |-> {}, has_target |-> FALSE]
OpReturn == [op |-> "Return", arg |-> 0, flags |-> {}, has_target |-> FALSE]
OpPop == [op |-> "Pop", arg |-> 0, flags |-> {}, has_target |-> FALSE]
OpFork == [op |-> "Fork", arg |-> 0, flags |-> {}, has_target |-> FALSE]
OpJoin(n) == [op |-> "Join", arg |-> n, flags |-> {}, has_target |-> FALSE]
OpHalt == [op |-> "Halt", arg |-> 0, flags |-> {}, has_target |-> FALSE]

\* ByteCode::get: Some(op) iff index < opcodes.len()
ByteCodeHas(bc, index) == index < Len(bc)
ByteCodeGet(bc, index) == bc[index + 1]

----------------------------------------------------------------------------
(* Task: the interpreter *)

NoError == [kind |-> "None", arg |-> 0]
ErrPop == [kind |-> "PopFromEmptyStack", arg |-> 0]
ErrPeek == [kind |-> "PeekFromEmptyStack", arg |-> 0]
ErrDredge(i) == [kind |-> "DredgeOutOfRange", arg |-> i]
ErrBury(i) == [kind |-> "BuryOutOfRange", arg |-> i]

\* Task::new
TaskNew == [program_counter |-> 0, stack |-> <<>>, forked |-> FALSE]

Continue(t) ==
    [flow |-> "Continue", task |-> t, execution |-> "None",
     task_id |-> 0, count |-> 0, error |-> NoError]
Return(t, e, id, n) ==
    [flow |-> "Return", task |-> t, execution |-> e,
     task_id |-> id, count |-> n, error |-> NoError]
Fail(t, e) ==
    [flow |-> "Err", task |-> t, execution |-> "None",
     task_id |-> 0, count |-> 0, error |-> e]
Abort(t) ==
    [flow |-> "Panic", task |-> t, execution |-> "None",
     task_id |-> 0, count |-> 0, error |-> NoError]

Top(s) == s[Len(s)]
Front(s) == SubSeq(s, 1, Len(s) - 1)

\* Vec::insert(i, v) with 0-based i <= len
VecInsert(s, i, v) == SubSeq(s, 1, i) \o <<v>> \o SubSeq(s, i + 1, Len(s))
\* Vec::remove(i) with 0-based i < len
VecRemove(s, i) == SubSeq(s, 1, i) \o SubSeq(s, i + 2, Len(s))

\* The value `self.peek()?` yields in OpCode::Jump: "ok", "err" or "panic".
\* `self.stack.len() - 1` underflows on the empty stack: a panic when the
\* build checks overflow, else usize::MAX and get() returns None.
PeekOutcome(s, checks) ==
    IF Len(s) > 0 THEN "ok"
    ELSE IF checks THEN "panic" ELSE "err"

\* let should_jump = { zero && forked }, given a stack that can be peeked
ShouldJump(flags, s, forked) ==
    LET zero == (ZERO \in flags) => (Top(s) = 0)
        fork == (FORK \in flags) => forked
    IN zero /\ fork

\* OpCode::Jump after the target has been determined
JumpWith(t, flags, target, checks) ==
    LET pk == PeekOutcome(t.stack, checks)
    IN  IF pk = "panic" THEN Abort(t)
        ELSE IF pk = "err" THEN Fail(t, ErrPeek)
        ELSE IF ShouldJump(flags, t.stack, t.forked)
             THEN Continue([t EXCEPT !.program_counter = AsUsize(target)])
             ELSE Continue(t)

TickJump(t, op, checks) ==
    IF op.has_target THEN JumpWith(t, op.flags, op.arg, checks)
    ELSE IF Len(t.stack) = 0 THEN Fail(t, ErrPop)
    ELSE JumpWith([t EXCEPT !.stack = Front(@)], op.flags, Top(t.stack),
                  checks)

\* mutant of JsrWith: the index of the JSR itself is pushed
JsrWith_OwnIndex(t, target) ==
    Continue([t EXCEPT !.stack = Append(@, AsI64(t.program_counter - 1)),
                       !.program_counter = AsUsize(target)])

JsrWith(t, target) ==
    Continue([t EXCEPT !.stack = Append(@, AsI64(t.program_counter)),
                       !.program_counter = AsUsize(target)])

TickJsr(t, op) ==
    IF op.has_target THEN JsrWith(t, op.arg)
    ELSE IF Len(t.stack) = 0 THEN Fail(t, ErrPop)
    ELSE JsrWith([t EXCEPT !.stack = Front(@)], Top(t.stack))

TickBury(t, op) ==
    IF Len(t.stack) = 0 THEN Fail(t, ErrPop)
    ELSE LET value == Top(t.stack)
             rest == Front(t.stack)
         IN  IF AsUsize(op.arg) > Len(rest)
             THEN Fail([t EXCEPT !.stack = rest], ErrBury(op.arg))
             ELSE Continue([t EXCEPT !.stack =
                     VecInsert(rest, Len(rest) - AsUsize(op.arg), value)])

\* (len - 1).checked_sub(index): on the empty stack len - 1 panics (overflow
\* checks) or wraps to usize::MAX, and then Vec::remove panics.
TickDredge(t, op) ==
    IF Len(t.stack) = 0 THEN Abort(t)
    ELSE IF AsUsize(op.arg) > Len(t.stack) - 1
         THEN Fail(t, ErrDredge(op.arg))
         ELSE LET remove_index == (Len(t.stack) - 1) - AsUsize(op.arg)
              IN  Continue([t EXCEPT !.stack =
                      Append(VecRemove(t.stack, remove_index),
                             t.stack[remove_index + 1])])

TickAdd(t) ==
    IF Len(t.stack) = 0 THEN Fail(t, ErrPop)
    ELSE IF Len(t.stack) = 1 THEN Fail([t EXCEPT !.stack = <<>>], ErrPop)
    ELSE LET a == Top(t.stack)
             b == Top(Front(t.stack))
         IN  Continue([t EXCEPT !.stack =
                 Append(Front(Front(t.stack)), OverflowingAdd(a, b))])

\* Task::tick
Tick(task, bc, checks) ==
    IF ~ByteCodeHas(bc, task.program_counter)
    THEN Return(task, "Terminated", 0, 0)
    ELSE
    LET op == ByteCodeGet(bc, task.program_counter)
        t == [task EXCEPT !.program_counter = @ + 1]
    IN  CASE op.op = "Push" -> Continue([t EXCEPT !.stack = Append(@, op.arg)])
          [] op.op = "Add" -> TickAdd(t)
          [] op.op = "DumpDebug" -> Continue(t)
          [] op.op = "Jump" -> TickJump(t, op, checks)
          [] op.op = "JumpToSubroutine" -> TickJsr(t, op)
          [] op.op = "Bury" -> TickBury(t, op)
          [] op.op = "Dredge" -> TickDredge(t, op)
          [] op.op = "Duplicate" ->
                IF Len(t.stack) = 0 THEN Fail(t, ErrPop)
                ELSE Continue([t EXCEPT !.stack = Append(@, Top(@))])
          [] op.op = "Pop" ->
                IF Len(t.stack) = 0 THEN Fail(t, ErrPop)
                ELSE Continue([t EXCEPT !.stack = Front(@)])
          [] op.op = "Return" ->
                IF Len(t.stack) = 0 THEN Fail(t, ErrPop)
                ELSE Continue([t EXCEPT !.stack = Front(@),
                                        !.program_counter = AsUsize(Top(t.stack))])
          [] op.op = "Fork" -> Return(t, "Fork", 0, 0)
          [] op.op = "Join" ->
                IF Len(t.stack) = 0 THEN Fail(t, ErrPop)
                ELSE Return([t EXCEPT !.stack = Front(@)], "Join",
                            AsUsize(Top(t.stack)), AsUsize(op.arg))
          [] op.op = "Halt" -> Return(t, "Terminated", 0, 0)

\* Task::run: tick until the task returns, fails or panics
RECURSIVE TaskRun(_, _, _)
TaskRun(task, bc, checks) ==
    LET r == Tick(task, bc, checks)
    IN  IF r.flow = "Continue" THEN TaskRun(r.task, bc, checks) ELSE r

----------------------------------------------------------------------------
(* State *)

Main == 0
Workers == 1 .. NumWorkers
Threads == {Main} \cup Workers

VARIABLES
    bytecode,         \* Arc<ByteCode> given to Vm::run
    overflow_checks,  \* whether the build panics on integer overflow
    thread_queues,    \* TaskQueue::thread_queues: thread id -> SingleQueue
    sub_tasks,        \* Vm::sub_tasks: task id -> SubTask
    poisoned,         \* the sub_tasks mutex was held by a panicking thread
    pc,               \* per thread: position inside TaskQueue::next / Executor::run
    cur,              \* per thread: Option<TaskState> obtained by next()
    scan,             \* per thread: queues the iterator of next() has not visited
    exit,             \* per worker: how Executor::run ended
    vm,               \* position of Vm::run on the main thread and its result
    next_uid,         \* history: number of TaskState values created so far
    ids,              \* history: the id given to each TaskState, by creation order
    pushed,           \* history: per TaskState, times it was pushed on the queue
    returned,         \* history: per TaskState, times next() returned it
    dropped,          \* history: TaskState values that were dropped
    failed,           \* history: tasks whose run ended with an ExecutionError
    alone,            \* history, per thread: no other thread changed a deque
                      \* since this thread's current call of next() began
    ticked,           \* the result of the last Task::tick of a task run alone
    writes,           \* history: sequence of ids under which Finished was inserted
    takes,            \* history: sequence of ids whose Finished entry a JOIN removed
    channel,          \* the shared channel of the task queue: task orders in order
    finished,         \* VmHandle::finished: task id -> result of the task
    registry,         \* per peer: the ids in the remote's bytecode_registry
    remote,           \* per peer: its remote executor, inside or outside try_run
    local,            \* the local executor: the task order it runs, if any
    orders,           \* history: number of task orders enqueued so far
    publishes,        \* history: per task id, times a result was published
    requeued,         \* history: ids put back on the channel, by RunError kind
    memory,           \* per peer: the remote's VmHandle::memory, address -> value
    storing,          \* the call of Cluster::store in progress, if any
    serving           \* per call of ClusterServer::run_to_completion: its position

vars == <<bytecode, overflow_checks, thread_queues, sub_tasks, poisoned, pc, cur,
          scan, exit, vm, next_uid, ids, pushed, returned, dropped, failed, alone,
          ticked, writes, takes, channel, finished, registry, remote, local,
          orders, publishes, requeued, memory, storing, serving>>

peer_vars == <<channel, finished, registry, remote, local, orders, publishes,
               requeued, memory, storing, serving>>

queue_vars == <<thread_queues, pc, cur, scan, pushed, returned>>

\* struct TaskState { id, task }; uid is the identity of the value (history)
TaskState(id, uid, task) == [id |-> id, uid |-> uid, task |-> task]

\* enum SubTask
Finished(ts) == [kind |-> "Finished", tasks |-> <<ts>>]
Blocking(tss) == [kind |-> "Blocking", tasks |-> tss]

\* SingleQueue::new
SingleQueueNew == [ready |-> <<>>, blocked |-> <<>>]

Bump(counts, uid) == [counts EXCEPT ![uid] = @ + 1]

RECURSIVE BumpAll(_, _)
BumpAll(counts, items) ==
    IF items = <<>> THEN counts
    ELSE BumpAll(Bump(counts, Head(items).uid), Tail(items))

----------------------------------------------------------------------------
(* TaskQueue *)

\* TaskQueue::push on thread t (with_current creates the thread's queue)
QueuePush(tq, t, item) ==
    IF t \in DOMAIN tq
    THEN [tq EXCEPT ![t].ready = Append(@, item)]
    ELSE (t :> [ready |-> <<item>>, blocked |-> <<>>]) @@ tq

\* mutant of QueuePushBlocked: the item goes to the ready deque
QueuePushBlocked_Ready(tq, t, item) ==
    IF t \in DOMAIN tq
    THEN [tq EXCEPT ![t].ready = Append(@, item)]
    ELSE (t :> [ready |-> <<item>>, blocked |-> <<>>]) @@ tq

\* TaskQueue::push_blocked on thread t
QueuePushBlocked(tq, t, item) ==
    IF t \in DOMAIN tq
    THEN [tq EXCEPT ![t].blocked = Append(@, item)]
    ELSE (t :> [ready |-> <<>>, blocked |-> <<item>>]) @@ tq

\* mutant of QueuePushAll: only the first task is pushed
QueuePushAll_First(tq, t, items) ==
    IF items = <<>> THEN tq ELSE QueuePush(tq, t, Head(items))

\* for task in tasks { self.handle.push(task) }
RECURSIVE QueuePushAll(_, _, _)
QueuePushAll(tq, t, items) ==
    IF items = <<>> THEN tq
    ELSE QueuePushAll(QueuePush(tq, t, Head(items)), t, Tail(items))

\* mutant of PopBackItem: the owner takes the front of its deque
PopBackItem_Front(q) == q[1]

\* mutants of PopBackRest and PopFrontRest: the item stays in the deque
PopBackRest_Keeps(q) == q
PopFrontRest_Keeps(q) == q

\* VecDeque::pop_back / pop_front on a non-empty deque: the item and the rest
PopBackItem(q) == q[Len(q)]
PopBackRest(q) == SubSeq(q, 1, Len(q) - 1)
PopFrontItem(q) == q[1]
PopFrontRest(q) == SubSeq(q, 2, Len(q))

\* next() hands `item` to thread t
Got(t, item) ==
    /\ cur' = [cur EXCEPT ![t] = <<item>>]
    /\ returned' = Bump(returned, item.uid)
    /\ pc' = [pc EXCEPT ![t] = "got"]
    /\ scan' = [scan EXCEPT ![t] = {}]

\* next(), first part: with_current(next_ready_back) reads the length of the
\* thread's own ready deque under the read lock
NextOwnLen(t) ==
    /\ pc[t] = "own_len"
    /\ IF t \notin DOMAIN thread_queues
       THEN /\ thread_queues' = (t :> SingleQueueNew) @@ thread_queues
            /\ pc' = [pc EXCEPT ![t] = "scan_ready"]
            /\ scan' = [scan EXCEPT ![t] = Threads \ {t}]
       ELSE /\ thread_queues' = thread_queues
            /\ IF Len(thread_queues[t].ready) = 0
               THEN /\ pc' = [pc EXCEPT ![t] = "scan_ready"]
                    /\ scan' = [scan EXCEPT ![t] = Threads \ {t}]
               ELSE /\ pc' = [pc EXCEPT ![t] = "own_pop"]
                    /\ scan' = scan
    /\ UNCHANGED <<cur, pushed, returned>>

\* SingleQueue::next_ready_back, second part: pop_back under the write lock
NextOwnPop(t) ==
    /\ pc[t] = "own_pop"
    /\ IF Len(thread_queues[t].ready) = 0
       THEN /\ pc' = [pc EXCEPT ![t] = "scan_ready"]
            /\ scan' = [scan EXCEPT ![t] = Threads \ {t}]
            /\ UNCHANGED <<thread_queues, cur, returned>>
       ELSE /\ thread_queues' = [thread_queues EXCEPT ![t].ready = PopBackRest(@)]
            /\ Got(t, PopBackItem(thread_queues[t].ready))
    /\ UNCHANGED pushed

\* next(), with_other_ready: the iterator over the other threads' queues takes
\* the front of the first ready deque that is not empty
NextScanReady(t) ==
    /\ pc[t] = "scan_ready"
    /\ IF scan[t] = {}
       THEN /\ pc' = [pc EXCEPT ![t] = "own_blocked"]
            /\ UNCHANGED <<thread_queues, cur, scan, returned>>
       ELSE \E u \in scan[t] :
              IF u \in DOMAIN thread_queues /\ Len(thread_queues[u].ready) > 0
              THEN /\ thread_queues' =
                        [thread_queues EXCEPT ![u].ready = PopFrontRest(@)]
                   /\ Got(t, PopFrontItem(thread_queues[u].ready))
              ELSE /\ scan' = [scan EXCEPT ![t] = @ \ {u}]
                   /\ UNCHANGED <<thread_queues, cur, pc, returned>>
    /\ UNCHANGED pushed

\* next(), with_current_blocked: with_current(next_blocked)
NextOwnBlocked(t) ==
    /\ pc[t] = "own_blocked"
    /\ IF t \in DOMAIN thread_queues /\ Len(thread_queues[t].blocked) > 0
       THEN /\ thread_queues' = [thread_queues EXCEPT ![t].blocked = PopFrontRest(@)]
            /\ Got(t, PopFrontItem(thread_queues[t].blocked))
       ELSE /\ thread_queues' =
                 IF t \in DOMAIN thread_queues THEN thread_queues
                 ELSE (t :> SingleQueueNew) @@ thread_queues
            /\ pc' = [pc EXCEPT ![t] = "scan_blocked"]
            /\ scan' = [scan EXCEPT ![t] = Threads \ {t}]
            /\ UNCHANGED <<cur, returned>>
    /\ UNCHANGED pushed

\* next(), with_other_blocked: the front of the first blocked deque of another
\* thread that is not empty, else None
NextScanBlocked(t) ==
    /\ pc[t] = "scan_blocked"
    /\ IF scan[t] = {}
       THEN /\ pc' = [pc EXCEPT ![t] = "got"]
            /\ cur' = [cur EXCEPT ![t] = <<>>]
            /\ UNCHANGED <<thread_queues, scan, returned>>
       ELSE \E u \in scan[t] :
              IF u \in DOMAIN thread_queues /\ Len(thread_queues[u].blocked) > 0
              THEN /\ thread_queues' =
                        [thread_queues EXCEPT ![u].blocked = PopFrontRest(@)]
                   /\ Got(t, PopFrontItem(thread_queues[u].blocked))
              ELSE /\ scan' = [scan EXCEPT ![t] = @ \ {u}]
                   /\ UNCHANGED <<thread_queues, cur, pc, returned>>
    /\ UNCHANGED pushed

\* TaskQueue::next on thread t, one step of it
QueueNext(t) ==
    \/ NextOwnLen(t)
    \/ NextOwnPop(t)
    \/ NextScanReady(t)
    \/ NextOwnBlocked(t)
    \/ NextScanBlocked(t)

----------------------------------------------------------------------------
(* Vm and Executor *)

\* values rand::thread_rng().gen() returns for a forked task's id in the model:
\* the root's id, the smallest other id and the largest usize
IdSpace == {0, 1, UsizeMax}

RootId == 0

\* the ids given to tasks so far
UsedIds == {ids[u] : u \in DOMAIN ids}

\* rand::thread_rng().gen() can return any usize.  The executor only compares
\* ids and casts them, so the draws that differ are: an id already given to a
\* task (the root's or a clone's), and an id no task has, for which the model
\* takes the largest usize not in use, else the smallest
Gen ==
    UsedIds \cup (IF UsizeMax \notin UsedIds THEN {UsizeMax}
                  ELSE {i \in IdSpace \ UsedIds :
                          \A j \in IdSpace \ UsedIds : i <= j})

NoExit == [kind |-> "running", error |-> NoError]
ExitOk == [kind |-> "ok", error |-> NoError]
ExitErr(e) == [kind |-> "err", error |-> e]
ExitPanic == [kind |-> "panic", error |-> NoError]
ExitUnreachable == [kind |-> "unreachable", error |-> NoError]

\* the worker thread ends with `how`
Leave(w, how) ==
    /\ exit' = [exit EXCEPT ![w] = how]
    /\ pc' = [pc EXCEPT ![w] = "exited"]
    /\ cur' = [cur EXCEPT ![w] = <<>>]

\* tick returned Ok(true): Executor::run calls tick, and so next(), again
Again(w) ==
    /\ exit' = exit
    /\ pc' = [pc EXCEPT ![w] = "own_len"]
    /\ cur' = [cur EXCEPT ![w] = <<>>]

\* the result of task_state.task.run(&self.bytecode) for the task w holds
RunOf(w) == TaskRun(cur[w][1].task, bytecode, overflow_checks)

\* Vm::run up to the spawn of the executors: the root task is pushed on the
\* main thread's queue and every worker starts Executor::run
VmRun ==
    /\ vm.pc = "new"
    /\ thread_queues' = QueuePush(thread_queues, Main, TaskState(RootId, 1, TaskNew))
    /\ next_uid' = 1
    /\ ids' = <<RootId>>
    /\ pushed' = <<1>>
    /\ returned' = <<0>>
    /\ pc' = [t \in Threads |-> IF t \in Workers THEN "own_len" ELSE pc[t]]
    /\ vm' = [vm EXCEPT !.pc = "join", !.next = 1]
    /\ UNCHANGED <<peer_vars, bytecode, overflow_checks, sub_tasks, poisoned, cur, scan, exit,
                   dropped, failed, alone, ticked, writes, takes>>

\* Executor::tick, next() returned None: Ok(false), Executor::run returns Ok(())
ExecNone(w) ==
    /\ pc[w] = "got" /\ cur[w] = <<>>
    /\ Leave(w, ExitOk)
    /\ UNCHANGED <<peer_vars, bytecode, overflow_checks, thread_queues, sub_tasks, poisoned,
                   scan, vm, next_uid, ids, pushed, returned, dropped, failed, alone, ticked,
                   writes, takes>>

\* Executor::tick, `task.run(..)?` fails: the error leaves tick and run, the
\* task state is dropped
ExecError(w) ==
    /\ pc[w] = "got" /\ cur[w] # <<>>
    /\ RunOf(w).flow \in {"Err", "Panic"}
    /\ Leave(w, IF RunOf(w).flow = "Err" THEN ExitErr(RunOf(w).error) ELSE ExitPanic)
    /\ dropped' = dropped \cup {cur[w][1].uid}
    /\ failed' = IF RunOf(w).flow = "Err"
                 THEN failed \cup {[uid |-> cur[w][1].uid, id |-> cur[w][1].id,
                                    error |-> RunOf(w).error]}
                 ELSE failed
    /\ UNCHANGED <<peer_vars, bytecode, overflow_checks, thread_queues, sub_tasks, poisoned,
                   scan, vm, next_uid, ids, pushed, returned, alone, ticked, writes, takes>>

\* Executor::tick, Execution::Terminated
ExecTerminated(w) ==
    /\ pc[w] = "got" /\ cur[w] # <<>>
    /\ RunOf(w).flow = "Return" /\ RunOf(w).execution = "Terminated"
    /\ LET task_state == [cur[w][1] EXCEPT !.task = RunOf(w).task]
           id == task_state.id
       IN  IF poisoned
           THEN \* lock().unwrap() panics
                /\ Leave(w, ExitPanic)
                /\ dropped' = dropped \cup {task_state.uid}
                /\ UNCHANGED <<thread_queues, sub_tasks, poisoned, pushed, writes>>
           ELSE /\ sub_tasks' = (id :> Finished(task_state)) @@ sub_tasks
                /\ writes' = [writes EXCEPT ![id] = @ + 1]
                /\ IF id \notin DOMAIN sub_tasks
                   THEN /\ Again(w)
                        /\ UNCHANGED <<thread_queues, poisoned, pushed, dropped>>
                   ELSE IF sub_tasks[id].kind = "Blocking"
                   THEN /\ thread_queues' =
                             QueuePushAll(thread_queues, w, sub_tasks[id].tasks)
                        /\ pushed' = BumpAll(pushed, sub_tasks[id].tasks)
                        /\ Again(w)
                        /\ UNCHANGED <<poisoned, dropped>>
                   ELSE \* Some(SubTask::Finished(_)) => unreachable!()
                        /\ Leave(w, ExitUnreachable)
                        /\ poisoned' = TRUE
                        /\ dropped' = dropped \cup {sub_tasks[id].tasks[1].uid}
                        /\ UNCHANGED <<thread_queues, pushed>>
    /\ UNCHANGED <<peer_vars, bytecode, overflow_checks, scan, vm, next_uid, ids, returned,
                   failed, alone, ticked, takes>>

\* mutant of ForkedOf: the clone gets its own id pushed
ForkedOf_OwnId(task_state, new_id, new_uid) ==
    [id |-> new_id, uid |-> new_uid,
     task |-> [task_state.task EXCEPT !.forked = TRUE,
                                      !.stack = Append(@, AsI64(new_id))]]

\* mutant of ParentOf: the parent gets its own id pushed
ParentOf_OwnId(task_state, new_id) ==
    [task_state EXCEPT !.task.forked = FALSE,
                       !.task.stack = Append(@, AsI64(task_state.id))]

\* the clone and the parent after Execution::Fork, the clone getting new_id
ForkedOf(task_state, new_id, new_uid) ==
    [id |-> new_id, uid |-> new_uid,
     task |-> [task_state.task EXCEPT !.forked = TRUE,
                                      !.stack = Append(@, AsI64(task_state.id))]]
ParentOf(task_state, new_id) ==
    [task_state EXCEPT !.task.forked = FALSE,
                       !.task.stack = Append(@, AsI64(new_id))]

\* Executor::tick, Execution::Fork
ExecFork(w) ==
    /\ pc[w] = "got" /\ cur[w] # <<>>
    /\ RunOf(w).flow = "Return" /\ RunOf(w).execution = "Fork"
    /\ \E new_id \in Gen :
         LET task_state == [cur[w][1] EXCEPT !.task = RunOf(w).task]
             forked == ForkedOf(task_state, new_id, next_uid + 1)
             parent == ParentOf(task_state, new_id)
         IN  /\ thread_queues' =
                  QueuePush(QueuePush(thread_queues, w, forked), w, parent)
             /\ next_uid' = next_uid + 1
             /\ ids' = Append(ids, new_id)
             /\ pushed' = Bump(Append(pushed, 1), parent.uid)
             /\ returned' = Append(returned, 0)
    /\ Again(w)
    /\ UNCHANGED <<peer_vars, bytecode, overflow_checks, sub_tasks, poisoned, scan, vm,
                   dropped, failed, alone, ticked, writes, takes>>

\* mutant of Rewound: the popped task id is not pushed back
Rewound_NoPush(task_state, task_id) ==
    [task_state EXCEPT !.task.program_counter = @ - 1]

\* the joining task put back before its JOIN (SubTask::Blocking branch)
Rewound(task_state, task_id) ==
    [task_state EXCEPT !.task.program_counter = @ - 1,
                       !.task.stack = Append(@, AsI64(task_id))]

\* mutant of ToPush: the first `count` values instead of the last
ToPush_FromFront(other_stack, count) ==
    SubSeq(other_stack, 1, count)

\* other_stack.split_at(other_stack.len() - count).1
ToPush(other_stack, count) ==
    SubSeq(other_stack, Len(other_stack) - count + 1, Len(other_stack))

\* the joining task after a JOIN of a finished task (SubTask::Finished branch)
Joined(task_state, other_stack, count) ==
    [task_state EXCEPT !.task.stack = @ \o ToPush(other_stack, count)]

\* Executor::tick, Execution::Join
ExecJoin(w) ==
    /\ pc[w] = "got" /\ cur[w] # <<>>
    /\ RunOf(w).flow = "Return" /\ RunOf(w).execution = "Join"
    /\ LET task_state == [cur[w][1] EXCEPT !.task = RunOf(w).task]
           task_id == RunOf(w).task_id
           count == RunOf(w).count
           sub_task == IF task_id \in DOMAIN sub_tasks THEN sub_tasks[task_id]
                       ELSE Blocking(<<>>)
           removed == [k \in DOMAIN sub_tasks \ {task_id} |-> sub_tasks[k]]
       IN  IF poisoned
           THEN /\ Leave(w, ExitPanic)
                /\ dropped' = dropped \cup {task_state.uid}
                /\ UNCHANGED <<thread_queues, sub_tasks, poisoned, pushed, takes>>
           ELSE IF sub_task.kind = "Blocking"
           THEN /\ sub_tasks' =
                     (task_id :> Blocking(Append(sub_task.tasks,
                                                 Rewound(task_state, task_id))))
                     @@ sub_tasks
                /\ Again(w)
                /\ UNCHANGED <<thread_queues, poisoned, pushed, dropped, takes>>
           ELSE LET joined == sub_task.tasks[1]
                IN  /\ sub_tasks' = removed
                    /\ takes' = [takes EXCEPT ![task_id] = @ + 1]
                    /\ IF count > Len(joined.task.stack)
                       THEN \* len - count underflows or split_at panics
                            /\ Leave(w, ExitPanic)
                            /\ poisoned' = TRUE
                            /\ dropped' = dropped \cup {joined.uid, task_state.uid}
                            /\ UNCHANGED <<thread_queues, pushed>>
                       ELSE /\ thread_queues' =
                                 QueuePush(thread_queues, w,
                                     Joined(task_state, joined.task.stack, count))
                            /\ pushed' = Bump(pushed, task_state.uid)
                            /\ Again(w)
                            /\ dropped' = dropped \cup {joined.uid}
                            /\ UNCHANGED poisoned
    /\ UNCHANGED <<peer_vars, bytecode, overflow_checks, scan, vm, next_uid, ids, returned,
                   failed, alone, ticked, writes>>

\* Vm::run, `thread.join().unwrap()?` on the next executor thread, once it ended
VmJoin ==
    /\ vm.pc = "join"
    /\ vm.next \in Workers
    /\ pc[vm.next] = "exited"
    /\ vm' = CASE exit[vm.next].kind = "ok" ->
                    IF vm.next = NumWorkers
                    THEN [vm EXCEPT !.pc = "returned", !.result = "Ok"]
                    ELSE [vm EXCEPT !.next = @ + 1]
               [] exit[vm.next].kind = "err" ->
                    [vm EXCEPT !.pc = "returned", !.result = "Err",
                               !.error = exit[vm.next].error]
               [] OTHER -> [vm EXCEPT !.pc = "returned", !.result = "Panic"]
    /\ UNCHANGED <<peer_vars, bytecode, overflow_checks, thread_queues, sub_tasks, poisoned,
                   pc, cur, scan, exit, next_uid, ids, pushed, returned, dropped,
                   failed, alone, ticked, writes, takes>>

\* one step of TaskQueue::next called by Executor::tick
ExecNext(w) ==
    /\ QueueNext(w)
    /\ UNCHANGED <<peer_vars, bytecode, overflow_checks, sub_tasks, poisoned, exit, vm,
                   next_uid, ids, dropped, failed, alone, ticked, writes, takes>>

----------------------------------------------------------------------------
(* Programs run by the model *)

\* FORK; the child pushes 7 and halts, the parent joins it with count 1
ProgForkJoin ==
    <<OpFork, OpJump({FORK}, 4), OpJoin(1), OpHalt, OpPush(7), OpHalt>>

\* as ProgForkJoin with a value on the stack before the FORK, and JOIN 2
ProgPrePush ==
    <<OpPush(5), OpFork, OpJump({FORK}, 5), OpJoin(2), OpHalt, OpPush(7)>>

\* the child forks again and joins its own child
ProgNested ==
    <<OpFork, OpJump({FORK}, 4), OpJoin(0), OpHalt,
      OpFork, OpJump({FORK}, 8), OpJoin(1), OpHalt, OpHalt>>

\* the parent forks two children; the parent and the second child both join
\* the first child
ProgTwoJoiners ==
    <<OpFork, OpJump({FORK}, 6), OpFork, OpPop, OpJoin(0), OpHalt, OpHalt>>

\* the parent forks a child that nobody joins
ProgNoJoin ==
    <<OpFork, OpHalt>>

\* the child fails with PopFromEmptyStack while the parent joins it
ProgChildFails ==
    <<OpFork, OpJump({FORK}, 4), OpJoin(1), OpHalt, OpPop, OpPop>>

\* the parent joins the same child twice
ProgDoubleJoin ==
    <<OpFork, OpJump({FORK}, 6), OpDuplicate, OpJoin(0), OpJoin(0), OpHalt, OpHalt>>

\* the root joins an id no task has
ProgJoinUnknown ==
    <<OpPush(9), OpJoin(1)>>

\* the parent asks for more values than the child's stack holds
ProgJoinTooMany ==
    <<OpFork, OpJump({FORK}, 4), OpJoin(3), OpHalt, OpHalt>>

\* FORK followed by a JMP with the FORK flag whose target is popped
ProgForkJumpPop ==
    <<OpFork, OpJumpPop({FORK}), OpHalt>>

\* the subroutine scenario: PUSH 10; JSR 4; HALT; PUSH 1; ADD; RET
ProgSubroutine ==
    <<OpPush(10), OpJsr(4), OpHalt, OpPush(1), OpAdd, OpReturn>>

\* a subroutine that keeps the return index out of its way: BURY 1 puts it
\* under the argument, DREDGE 1 brings it back on top for the RET
ProgSubroutineBury ==
    <<OpPush(10), OpJsr(3), OpHalt,
      OpBury(1), OpPush(1), OpAdd, OpDredge(1), OpReturn>>

Programs ==
    {ProgForkJoin, ProgPrePush, ProgNested, ProgTwoJoiners, ProgNoJoin,
     ProgChildFails, ProgDoubleJoin, ProgJoinUnknown, ProgJoinTooMany,
     ProgForkJumpPop, ProgSubroutine, ProgSubroutineBury}

\* the programs in which a task reaches `len() - 1` on an empty stack, the only
\* place where the two builds differ
OverflowPrograms == {ProgForkJumpPop}

----------------------------------------------------------------------------
(* Specification of the Vm *)

(* Remote execution: state.  A remote executor per peer takes task orders
   from the shared channel and hands each to Peer::try_run; a local executor
   takes from the same channel. *)

NumPeers == 2
MaxOrders == 2

Peers == 1 .. NumPeers

\* std::io::ErrorKind of a failed call of the tarpc client
IoKinds == {"ConnectionReset", "TimedOut", "BrokenPipe"}

\* the ids under which the Vm has registered bytecode: it runs one program
BytecodeIds == {1}

\* struct TaskOrder, as far as cluster.rs reads it
TaskOrder(id, bytecode_id) ==
    [id |-> id, bytecode_id |-> bytecode_id, task |-> TaskNew]

\* Result<TaskOrder, ExecutionError>: the reply of run_to_completion and the
\* value of an entry of the finished map
NoReply == [kind |-> "None", order |-> <<>>, error |-> NoError]
ReplyOk(to) == [kind |-> "Ok", order |-> <<to>>, error |-> NoError]
ReplyErr(e) == [kind |-> "Err", order |-> <<>>, error |-> e]

\* Result<TaskOrder, RunError>
NoResult == [kind |-> "None", order |-> <<>>, error |-> NoError]
RunOk(to) == [kind |-> "Ok", order |-> <<to>>, error |-> NoError]
RunExecution(e) == [kind |-> "Execution", order |-> <<>>, error |-> e]
RunConnectionReset == [kind |-> "ConnectionReset", order |-> <<>>, error |-> NoError]
RunUnknown == [kind |-> "Unknown", order |-> <<>>, error |-> NoError]

\* a remote executor waiting for a task order
RemoteIdle ==
    [pc |-> "wait", order |-> <<>>, io |-> "None", reply |-> NoReply,
     result |-> NoResult, defines |-> 0]

\* the calls of ClusterServer::run_to_completion one server receives
MaxCalls == 3

Calls == 1 .. MaxCalls

\* a call of run_to_completion that has not arrived yet
NotCalled ==
    [pc |-> "idle", order |-> <<>>, reply |-> NoReply, unknown |-> <<>>,
     pushes |-> 0, removes |-> 0]

\* no call of Cluster::store has been made
NotStoring ==
    [pc |-> "idle", peer |-> 0, addr |-> 0, value |-> 0, acked |-> {},
     reset |-> {}, last |-> "None", calls |-> 0]

PeerInit ==
    /\ channel = <<>>
    /\ finished = <<>>
    /\ registry = [p \in Peers |-> {}]
    /\ remote = [p \in Peers |-> RemoteIdle]
    /\ local = <<>>
    /\ orders = 0
    /\ publishes = <<>>
    /\ requeued = [k \in {"ConnectionReset", "Unknown"} |-> {}]
    /\ memory = [p \in Peers |-> <<>>]
    /\ storing = NotStoring
    /\ serving = [c \in Calls |-> NotCalled]

\* no tick has been made
NotTicked ==
    [n |-> 0, flow |-> "None", execution |-> "None", task_id |-> 0,
     count |-> 0, error |-> NoError]

NoVm == [pc |-> "new", next |-> 0, result |-> "None", error |-> NoError]

\* Vm::new, TaskQueue::new: nothing queued, nothing finished, no thread spawned
InitWith(bc, checks) ==
    /\ bytecode = bc
    /\ overflow_checks = checks
    /\ thread_queues = <<>>
    /\ sub_tasks = <<>>
    /\ poisoned = FALSE
    /\ pc = [t \in Threads |-> "idle"]
    /\ cur = [t \in Threads |-> <<>>]
    /\ scan = [t \in Threads |-> {}]
    /\ exit = [w \in Workers |-> NoExit]
    /\ vm = NoVm
    /\ next_uid = 0
    /\ ids = <<>>
    /\ pushed = <<>>
    /\ returned = <<>>
    /\ dropped = {}
    /\ failed = {}
    /\ alone = [t \in Threads |-> TRUE]
    /\ ticked = NotTicked
    /\ writes = [i \in IdSpace |-> 0]
    /\ takes = [i \in IdSpace |-> 0]
    /\ PeerInit

Init ==
    \E bc \in Programs, checks \in BOOLEAN :
        /\ checks => bc \in OverflowPrograms
        /\ InitWith(bc, checks)

Next ==
    \/ VmRun
    \/ VmJoin
    \/ \E w \in Workers : ExecNext(w)
    \/ \E w \in Workers : ExecNone(w)
    \/ \E w \in Workers : ExecError(w)
    \/ \E w \in Workers : ExecTerminated(w)
    \/ \E w \in Workers : ExecFork(w)
    \/ \E w \in Workers : ExecJoin(w)

Spec == Init /\ [][Next]_vars

----------------------------------------------------------------------------
(* Fork *)

\* worker w handles Execution::Fork in this step
ForkStep(w) ==
    /\ pc[w] = "got" /\ pc'[w] = "own_len" /\ cur[w] # <<>>
    /\ RunOf(w).flow = "Return" /\ RunOf(w).execution = "Fork"

\* the two tasks the fork step of w leaves at the back of w's ready deque
CloneAfter(w) == thread_queues'[w].ready[Len(thread_queues'[w].ready) - 1]
ParentAfter(w) == thread_queues'[w].ready[Len(thread_queues'[w].ready)]

\* the ready deque of w before the step (empty when w had no queue yet)
ReadyOf(w) == IF w \in DOMAIN thread_queues THEN thread_queues[w].ready ELSE <<>>

\* C1: in every step that handles FORK for a task with id p whose stack at the
\* FORK is s, the worker's ready deque grows by exactly two tasks, the clone
\* and then the parent; both have the program counter after the FORK, the
\* parent keeps id p and has stack s followed by the clone's id c, the clone
\* has stack s followed by p.
C1_ForkStacks ==
    [][\A w \in Workers : ForkStep(w) =>
         LET before == RunOf(w).task
             p == cur[w][1].id
             clone == CloneAfter(w)
             parent == ParentAfter(w)
         IN  /\ Len(thread_queues'[w].ready) = Len(ReadyOf(w)) + 2
             /\ SubSeq(thread_queues'[w].ready, 1, Len(ReadyOf(w))) = ReadyOf(w)
             /\ parent.id = p /\ parent.uid = cur[w][1].uid
             /\ clone.uid # parent.uid
             /\ clone.task.program_counter = before.program_counter
             /\ parent.task.program_counter = before.program_counter
             /\ parent.task.stack = before.stack \o <<AsI64(clone.id)>>
             /\ clone.task.stack = before.stack \o <<AsI64(p)>>
      ]_vars

\* a fork of a task with a non-empty stack has happened: a ready deque holds
\* the clone followed by its parent, each with the other's id above the value
\* pushed before the FORK
C1_Witness ==
    \E t \in DOMAIN thread_queues :
      \E i \in 1 .. Len(thread_queues[t].ready) - 1 :
        LET clone == thread_queues[t].ready[i]
            parent == thread_queues[t].ready[i + 1]
        IN  /\ clone.task.forked /\ ~parent.task.forked
            /\ clone.task.stack = <<5, AsI64(parent.id)>>
            /\ parent.task.stack = <<5, AsI64(clone.id)>>
            /\ clone.task.program_counter = 2
            /\ parent.task.program_counter = 2

\* the last n values of stack s (all of s when it is shorter)
TopN(s, n) == SubSeq(s, IF Len(s) > n THEN Len(s) - n + 1 ELSE 1, Len(s))

AtJumpOnFork(ts) ==
    /\ ByteCodeHas(bytecode, ts.task.program_counter)
    /\ ByteCodeGet(bytecode, ts.task.program_counter).op = "Jump"
    /\ ByteCodeGet(bytecode, ts.task.program_counter).flags = {FORK}

\* the target of the JMP the task executes next
JumpTargetOf(ts) ==
    IF ByteCodeGet(bytecode, ts.task.program_counter).has_target
    THEN ByteCodeGet(bytecode, ts.task.program_counter).arg
    ELSE Top(ts.task.stack)

\* the flags part of C3: after every FORK the clone's forked flag is true and
\* the parent's is false
C3_ForkFlags ==
    [][\A w \in Workers : ForkStep(w) =>
         CloneAfter(w).task.forked /\ ~ParentAfter(w).task.forked
      ]_vars

\* C3 as stated: after every FORK the clone's forked flag is true and the
\* parent's is false, and a JMP with the FORK flag that follows the FORK is
\* taken by the clone (its next tick continues at the target) and not by the
\* parent (its next tick continues at the instruction after the JMP).
C3_Original ==
    [][\A w \in Workers : ForkStep(w) =>
         LET clone == CloneAfter(w)
             parent == ParentAfter(w)
             rc == Tick(clone.task, bytecode, overflow_checks)
             rp == Tick(parent.task, bytecode, overflow_checks)
         IN  /\ clone.task.forked /\ ~parent.task.forked
             /\ AtJumpOnFork(clone) =>
                  /\ rc.flow = "Continue"
                  /\ rc.task.program_counter = AsUsize(JumpTargetOf(clone))
                  /\ rp.flow = "Continue"
                  /\ rp.task.program_counter = parent.task.program_counter + 1
      ]_vars

----------------------------------------------------------------------------
(* Join *)

\* the task as it was before the tick that made its run return
RECURSIVE BeforeYield(_)
BeforeYield(task) ==
    IF Tick(task, bytecode, overflow_checks).flow = "Continue"
    THEN BeforeYield(Tick(task, bytecode, overflow_checks).task)
    ELSE task

\* worker w handles Execution::Join in this step and the joined id has a
\* finished entry whose stack holds at least `count` values
JoinFinishedStep(w) ==
    /\ pc[w] = "got" /\ pc'[w] = "own_len" /\ cur[w] # <<>>
    /\ ~poisoned
    /\ RunOf(w).flow = "Return" /\ RunOf(w).execution = "Join"
    /\ RunOf(w).task_id \in DOMAIN sub_tasks
    /\ sub_tasks[RunOf(w).task_id].kind = "Finished"
    /\ RunOf(w).count <= Len(sub_tasks[RunOf(w).task_id].tasks[1].task.stack)

\* C4: in every step that handles JOIN(count) on the id of a finished task
\* with final stack S, count <= Len(S), the joining task is pushed back with
\* the stack it had before the JOIN minus the task id on its top, followed by
\* the last count values of S in their order, and with the program counter
\* after the JOIN; the finished entry is removed.
C4_JoinAppends ==
    [][\A w \in Workers : JoinFinishedStep(w) =>
         LET before == BeforeYield(cur[w][1].task)
             count == ByteCodeGet(bytecode, before.program_counter).arg
             S == sub_tasks[RunOf(w).task_id].tasks[1].task.stack
             after == thread_queues'[w].ready[Len(thread_queues'[w].ready)]
         IN  /\ AsUsize(Top(before.stack)) = RunOf(w).task_id
             /\ after.uid = cur[w][1].uid /\ after.id = cur[w][1].id
             /\ Len(after.task.stack) = Len(before.stack) - 1 + count
             /\ \A i \in 1 .. Len(before.stack) - 1 :
                    after.task.stack[i] = before.stack[i]
             /\ \A i \in 1 .. count :
                    after.task.stack[Len(before.stack) - 1 + i] =
                        S[Len(S) - count + i]
             /\ after.task.program_counter = before.program_counter + 1
             /\ after.task.forked = before.forked
             /\ RunOf(w).task_id \notin DOMAIN sub_tasks'
      ]_vars

\* a JOIN 2 of a finished task with final stack <<5, 0, 7>> has happened: the
\* joining root, which held <<5, child id>>, is back on a ready deque with
\* <<5>> followed by <<0, 7>>, behind its JOIN, and the entry is gone
C4_Witness ==
    /\ bytecode = ProgPrePush
    /\ \E t \in DOMAIN thread_queues :
         \E i \in 1 .. Len(thread_queues[t].ready) :
           /\ thread_queues[t].ready[i].uid = 1
           /\ thread_queues[t].ready[i].task.stack = <<5, 0, 7>>
           /\ thread_queues[t].ready[i].task.program_counter = 4
    /\ takes[ids[2]] = 1
    /\ ids[2] \notin DOMAIN sub_tasks

----------------------------------------------------------------------------
(* Failure, termination and the finished entries *)

AllExited == \A w \in Workers : pc[w] = "exited"

\* C5 as stated: a task whose run fails with an ExecutionError has Err(e)
\* published under its id, and the worker that ran it keeps processing (no
\* worker ends its run with the error).
C5_Original ==
    \A f \in failed :
        /\ f.id \in DOMAIN sub_tasks
        /\ sub_tasks[f.id].kind = "Err"
        /\ \A w \in Workers : exit[w].kind # "err"

\* C6 as stated, in the form a finite run refutes: once every worker has left
\* its loop nothing changes any more, so a task that is then still in the
\* blocked list of an id under which a task has terminated stays blocked
\* forever.
C6_Original ==
    AllExited =>
        \A id \in DOMAIN sub_tasks :
            (sub_tasks[id].kind = "Blocking" /\ id \in DOMAIN writes /\ writes[id] > 0)
                => sub_tasks[id].tasks = <<>>

\* C7 as stated: no terminating task finds a finished entry under its own id,
\* the unreachable!() branch is never executed.
C7_Original ==
    \A w \in Workers : exit[w].kind # "unreachable"

\* C8 as stated: when Vm::run has returned, exactly one finished entry has
\* been written under the id of every task created, and it has been removed at
\* most once.
C8_Original ==
    vm.pc = "returned" =>
        \A u \in 1 .. next_uid :
            /\ writes[ids[u]] = 1
            /\ takes[ids[u]] <= 1

----------------------------------------------------------------------------
(* Ownership of task states *)

\* the places that hold the TaskState value u
HeldByThread(u) == {t \in Threads : cur[t] # <<>> /\ cur[t][1].uid = u}
HeldInReady(u) ==
    UNION {{<<t, i>> : i \in {j \in DOMAIN thread_queues[t].ready :
                                  thread_queues[t].ready[j].uid = u}} :
           t \in DOMAIN thread_queues}
HeldInBlocked(u) ==
    UNION {{<<t, i>> : i \in {j \in DOMAIN thread_queues[t].blocked :
                                  thread_queues[t].blocked[j].uid = u}} :
           t \in DOMAIN thread_queues}
HeldInSubTasks(u) ==
    UNION {{<<id, i>> : i \in {j \in DOMAIN sub_tasks[id].tasks :
                                   sub_tasks[id].tasks[j].uid = u}} :
           id \in DOMAIN sub_tasks}

Places(u) ==
    Cardinality(HeldByThread(u)) + Cardinality(HeldInReady(u))
        + Cardinality(HeldInBlocked(u)) + Cardinality(HeldInSubTasks(u))

\* C9: every task state that exists (created and not dropped: not consumed by
\* a JOIN, not lost with a failed run) is held in exactly one place: the
\* thread that obtained it from next(), a ready or blocked deque, or sub_tasks
\* (as Finished or in a Blocking list); a dropped one is held nowhere.  So a
\* task is never in two places and never held by two workers.
C9_Ownership ==
    \A u \in 1 .. next_uid : Places(u) = IF u \in dropped THEN 0 ELSE 1

\* three task states are held in three different kinds of place at once: one
\* by a worker that stole it from another worker's deque, one in a Blocking
\* list and one as a Finished entry
C9_Witness ==
    /\ \E w \in Workers : pc[w] = "got" /\ cur[w] # <<>>
                          /\ Len(thread_queues[w].ready) = 0
                          /\ pushed[cur[w][1].uid] > 1
    /\ \E id \in DOMAIN sub_tasks : sub_tasks[id].kind = "Blocking"
    /\ \E id \in DOMAIN sub_tasks : sub_tasks[id].kind = "Finished"
    /\ dropped = {}

----------------------------------------------------------------------------
(* Specification of the queue alone: threads call push, push_blocked and
   next in any order and interleaving, as the tests of task_queue.rs do with
   their ThreadRunners.  An item carries the id of the thread that pushed it. *)

QInit == InitWith(<<>>, FALSE)

\* the deques of every thread, a thread without a queue having none
Deques(tq) ==
    [t \in Threads |-> IF t \in DOMAIN tq THEN tq[t] ELSE SingleQueueNew]

\* the step of thread t changed a deque: the calls of next() in progress on
\* other threads are no longer alone
Disturb(t) ==
    alone' = [v \in Threads |->
                IF /\ v # t
                   /\ pc[v] # "idle"
                   /\ Deques(thread_queues') # Deques(thread_queues)
                THEN FALSE ELSE alone[v]]

QUnchanged ==
    UNCHANGED <<peer_vars, bytecode, overflow_checks, sub_tasks, poisoned, exit, vm, dropped,
                failed, ticked, writes, takes>>

\* q.push(item) on thread t
QPush(t) ==
    /\ pc[t] = "idle"
    /\ next_uid < MaxPush
    /\ thread_queues' =
         QueuePush(thread_queues, t, TaskState(t, next_uid + 1, TaskNew))
    /\ next_uid' = next_uid + 1
    /\ ids' = Append(ids, t)
    /\ pushed' = Append(pushed, 1)
    /\ returned' = Append(returned, 0)
    /\ Disturb(t)
    /\ UNCHANGED <<pc, cur, scan>>
    /\ QUnchanged

\* the value of the items given to push_blocked, which tells them from the
\* items given to push (as the values 0 and 1 do in the tests)
Parked == [TaskNew EXCEPT !.stack = <<1>>]

\* q.push_blocked(item) on thread t
QPushBlocked(t) ==
    /\ pc[t] = "idle"
    /\ next_uid < MaxPush
    /\ thread_queues' =
         QueuePushBlocked(thread_queues, t, TaskState(t, next_uid + 1, Parked))
    /\ next_uid' = next_uid + 1
    /\ ids' = Append(ids, t)
    /\ pushed' = Append(pushed, 1)
    /\ returned' = Append(returned, 0)
    /\ Disturb(t)
    /\ UNCHANGED <<pc, cur, scan>>
    /\ QUnchanged

\* thread t calls q.next()
QCall(t) ==
    /\ pc[t] = "idle"
    /\ pc' = [pc EXCEPT ![t] = "own_len"]
    /\ alone' = [alone EXCEPT ![t] = TRUE]
    /\ UNCHANGED <<thread_queues, cur, scan, next_uid, ids, pushed, returned>>
    /\ QUnchanged

\* one step of q.next() on thread t
QStep(t) ==
    /\ QueueNext(t)
    /\ Disturb(t)
    /\ UNCHANGED <<next_uid, ids>>
    /\ QUnchanged

\* q.next() has returned on thread t; the caller takes the result
QReturn(t) ==
    /\ pc[t] = "got"
    /\ pc' = [pc EXCEPT ![t] = "idle"]
    /\ cur' = [cur EXCEPT ![t] = <<>>]
    /\ alone' = [alone EXCEPT ![t] = TRUE]
    /\ UNCHANGED <<thread_queues, scan, next_uid, ids, pushed, returned>>
    /\ QUnchanged

QNext ==
    \/ \E t \in Threads : QPush(t)
    \/ \E t \in Threads : QPushBlocked(t)
    \/ \E t \in Threads : QCall(t)
    \/ \E t \in Threads : QStep(t)
    \/ \E t \in Threads : QReturn(t)

QSpec == QInit /\ [][QNext]_vars

\* the number of times item u occurs in the deques
InDeques(u) == Cardinality(HeldInReady(u)) + Cardinality(HeldInBlocked(u))

NoDequeHolds ==
    \A t \in DOMAIN thread_queues :
        thread_queues[t].ready = <<>> /\ thread_queues[t].blocked = <<>>

\* C10: every item pushed is, at any moment, either still in exactly one deque
\* or has been returned by next() exactly once: it is never returned twice,
\* never duplicated and never lost, whatever the interleaving of the owner's
\* pop_back with other threads' pop_front.  And an item is within reach of
\* next() on every thread: a call of next() during which no other thread
\* changed a deque returns None only if no deque of any thread holds an item.
C10_ExactlyOnce ==
    /\ \A u \in 1 .. next_uid :
          /\ pushed[u] = 1
          /\ returned[u] + InDeques(u) = 1
    /\ \A t \in Threads :
          (pc[t] = "got" /\ cur[t] = <<>> /\ alone[t]) => NoDequeHolds

\* the owner a saw its ready deque non-empty and is about to pop_back, while
\* thread b has taken the only item, pushed by a, from the front: b holds it
\* and a's pop will find nothing
C10_Witness ==
    \E a, b \in Threads :
        /\ a # b
        /\ pc[a] = "own_pop" /\ thread_queues[a].ready = <<>>
        /\ pc[b] = "got" /\ cur[b] # <<>> /\ cur[b][1].id = a
        /\ returned[cur[b][1].uid] = 1

----------------------------------------------------------------------------
(* Order of next() *)

\* the items of a deque
ItemsOf(q) == {q[i] : i \in DOMAIN q}

\* the item of a non-empty deque pushed last, and the one pushed first: items
\* are numbered (uid) in the order of their pushes
Newest(q) == CHOOSE x \in ItemsOf(q) : \A y \in ItemsOf(q) : y.uid <= x.uid
Oldest(q) == CHOOSE x \in ItemsOf(q) : \A y \in ItemsOf(q) : x.uid <= y.uid

\* the ready and blocked deques of thread t
ReadyAt(t) == Deques(thread_queues)[t].ready
BlockedAt(t) == Deques(thread_queues)[t].blocked

\* thread t takes a step of next()
Moves(t) == pc'[t] # pc[t] \/ scan'[t] # scan[t]

\* C11: a call of next() on thread t that finds t's own ready deque non-empty
\* goes on to pop from it and never looks at another thread's deque first; the
\* item its pop returns is the one t pushed most recently of those in the
\* deque (LIFO), whatever the other threads hold, and an undisturbed call
\* always gets it.  When the call takes a ready item from another thread u
\* instead, this is the oldest item of u's ready deque (FIFO), and an
\* undisturbed call whose own ready deque is empty returns such an item
\* whenever some other thread has a ready item.
C11_LifoOwnFifoSteal ==
    [][\A t \in Threads :
         /\ (pc[t] = "own_len" /\ Moves(t) /\ ReadyAt(t) # <<>>)
                => pc'[t] = "own_pop"
         /\ (pc[t] = "own_pop" /\ Moves(t) /\ alone[t]) => pc'[t] = "got"
         /\ (pc[t] = "own_pop" /\ pc'[t] = "got") =>
                /\ cur'[t] = <<Newest(ReadyAt(t))>>
                /\ cur'[t][1].id = t
                /\ ItemsOf(thread_queues'[t].ready) =
                       ItemsOf(ReadyAt(t)) \ {Newest(ReadyAt(t))}
         /\ (pc[t] = "scan_ready" /\ pc'[t] = "got") =>
                \E u \in Threads \ {t} :
                    /\ ReadyAt(u) # <<>>
                    /\ cur'[t] = <<Oldest(ReadyAt(u))>>
                    /\ ItemsOf(thread_queues'[u].ready) =
                           ItemsOf(ReadyAt(u)) \ {Oldest(ReadyAt(u))}
         /\ (pc[t] = "scan_ready" /\ pc'[t] = "own_blocked" /\ alone[t]) =>
                \A u \in Threads : ReadyAt(u) = <<>>
      ]_vars

\* thread a pushed three items; thread b, whose own ready deque is empty, has
\* got the first of them and a has got the last, the second is still queued
C11_Witness ==
    \E a, b \in Threads :
        /\ a # b
        /\ pc[a] = "got" /\ cur[a] # <<>> /\ cur[a][1].uid = 3 /\ cur[a][1].id = a
        /\ pc[b] = "got" /\ cur[b] # <<>> /\ cur[b][1].uid = 1 /\ cur[b][1].id = a
        /\ Len(ReadyAt(a)) = 1 /\ ReadyAt(a)[1].uid = 2
        /\ ReadyAt(b) = <<>>

\* the call of next() on thread t returns in this step, with an item or None
Returns(t) == pc[t] # "got" /\ pc'[t] = "got"

\* C12: an item given to push_blocked is returned only by the last two stages
\* of next(), an item given to push only by the first two; the stages run in
\* the order own ready, other threads' ready, own blocked, other threads'
\* blocked.  So for a call that no other thread disturbs: when it returns a
\* blocked item, no thread has a ready item; when it returns another thread's
\* ready item, its own ready deque is empty; when it returns another thread's
\* blocked item, its own blocked deque is empty too; and when it returns
\* None, every deque of every thread is empty.  A blocked item is taken from
\* the front of its deque.
C12_ReadyBeforeBlocked ==
    [][\A t \in Threads :
         /\ (Returns(t) /\ cur'[t] # <<>> /\ cur'[t][1].task = Parked) =>
                /\ pc[t] \in {"own_blocked", "scan_blocked"}
                /\ alone[t] => \A u \in Threads : ReadyAt(u) = <<>>
         /\ (Returns(t) /\ cur'[t] # <<>> /\ cur'[t][1].task # Parked) =>
                pc[t] \in {"own_pop", "scan_ready"}
         /\ (Returns(t) /\ pc[t] = "scan_ready" /\ alone[t]) => ReadyAt(t) = <<>>
         /\ (Returns(t) /\ pc[t] = "own_blocked") =>
                cur'[t] = <<Head(BlockedAt(t))>>
         /\ (Returns(t) /\ pc[t] = "scan_blocked" /\ cur'[t] # <<>>) =>
                /\ \E u \in Threads \ {t} :
                       BlockedAt(u) # <<>> /\ cur'[t] = <<Head(BlockedAt(u))>>
                /\ alone[t] => BlockedAt(t) = <<>>
         /\ (Returns(t) /\ cur'[t] = <<>>) =>
                /\ pc[t] = "scan_blocked"
                /\ alone[t] => NoDequeHolds
      ]_vars

\* thread a has been given the item it passed to push_blocked, in a call no
\* thread disturbed, after a ready item of another thread b was returned; b's
\* blocked deque still holds an item and no ready item is left anywhere
C12_Witness ==
    \E a, b \in Threads :
        /\ a # b
        /\ pc[a] = "got" /\ cur[a] # <<>> /\ alone[a]
        /\ cur[a][1].task = Parked /\ cur[a][1].id = a
        /\ BlockedAt(b) # <<>> /\ BlockedAt(b)[1].task = Parked
        /\ \E u \in 1 .. next_uid : ids[u] = b /\ returned[u] = 1
        /\ \A u \in Threads : ReadyAt(u) = <<>>

----------------------------------------------------------------------------
(* Task ids *)

\* C13 as stated: no two tasks created in a run have the same id; the id of
\* a clone differs from the root's id and from every other clone's.
C13_Original ==
    \A u, v \in 1 .. next_uid : u # v => ids[u] # ids[v]

----------------------------------------------------------------------------
(* Deadlock *)

\* the error the specification names for a join that cannot progress; the
\* ExecutionError of the code has no such variant
ErrUnableToProgress == [kind |-> "UnableToProgress", arg |-> 0]

\* C14 as stated: the run of `PUSH 9; JOIN 1`, whose root joins an id no task
\* has while nothing else is queued, ends with the error UnableToProgress.
C14_Original ==
    (bytecode = ProgJoinUnknown /\ vm.pc = "returned") =>
        (vm.result = "Err" /\ vm.error = ErrUnableToProgress)

----------------------------------------------------------------------------
(* Specification of the interpreter alone: one task, started on a stack and
   a forked flag drawn from bounded sets, is ticked on a program of one or
   two instructions until its tick returns, fails or panics. *)

\* the values on the initial stacks; -1 is usize::MAX when cast
TValues == {-1, 0, 1}

\* literal jump targets, BURY/DREDGE indexes and JOIN counts of the programs
TTargets == {-1, 1}
TIndexes == {-1, 0, 1, 2, 3}

TOps ==
    {OpPush(v) : v \in {0, 2}}
        \cup {OpAdd, OpDumpDebug, OpDuplicate, OpReturn, OpPop, OpFork, OpHalt,
              OpJsrPop}
        \cup {OpJump(fl, t) : fl \in SUBSET {ZERO, FORK}, t \in TTargets}
        \cup {OpJumpPop(fl) : fl \in SUBSET {ZERO, FORK}}
        \cup {OpJsr(t) : t \in TTargets}
        \cup {OpBury(i) : i \in TIndexes}
        \cup {OpDredge(i) : i \in TIndexes}
        \cup {OpJoin(n) : n \in {0, 1}}

TPrograms == {<<a>> : a \in TOps} \cup {<<a, b>> : a, b \in TOps}

\* the stacks of length n over TValues
RECURSIVE StacksOfLen(_)
StacksOfLen(n) ==
    IF n = 0 THEN {<<>>}
    ELSE {Append(st, v) : st \in StacksOfLen(n - 1), v \in TValues}

TStacks == UNION {StacksOfLen(n) : n \in 0 .. MaxStack}

\* the task being ticked
TTask == cur[Main][1].task

TInit ==
    /\ bytecode \in TPrograms
    /\ overflow_checks \in BOOLEAN
    /\ \E stack \in TStacks, forked \in BOOLEAN :
          cur = [t \in Threads |->
                   IF t = Main
                   THEN <<TaskState(RootId, 1, [TaskNew EXCEPT !.stack = stack,
                                                               !.forked = forked])>>
                   ELSE <<>>]
    /\ thread_queues = <<>>
    /\ sub_tasks = <<>>
    /\ poisoned = FALSE
    /\ pc = [t \in Threads |-> "idle"]
    /\ scan = [t \in Threads |-> {}]
    /\ exit = [w \in Workers |-> NoExit]
    /\ vm = NoVm
    /\ next_uid = 1
    /\ ids = <<RootId>>
    /\ pushed = <<0>>
    /\ returned = <<0>>
    /\ dropped = {}
    /\ failed = {}
    /\ alone = [t \in Threads |-> TRUE]
    /\ ticked = NotTicked
    /\ writes = [i \in IdSpace |-> 0]
    /\ takes = [i \in IdSpace |-> 0]
    /\ PeerInit

\* one call of Task::tick
TTick ==
    /\ ticked.flow \in {"None", "Continue"}
    /\ ticked.n < MaxTicks
    /\ LET r == Tick(TTask, bytecode, overflow_checks)
       IN  /\ cur' = [cur EXCEPT ![Main] = <<[@[1] EXCEPT !.task = r.task]>>]
           /\ ticked' = [n |-> ticked.n + 1, flow |-> r.flow,
                         execution |-> r.execution, task_id |-> r.task_id,
                         count |-> r.count, error |-> r.error]
    /\ UNCHANGED <<peer_vars, bytecode, overflow_checks, thread_queues, sub_tasks, poisoned,
                   pc, scan, exit, vm, next_uid, ids, pushed, returned, dropped,
                   failed, alone, writes, takes>>

TNext == TTick

TSpec == TInit /\ [][TNext]_vars

\* the instruction the next tick executes
AtOp(name) ==
    /\ ByteCodeHas(bytecode, TTask.program_counter)
    /\ ByteCodeGet(bytecode, TTask.program_counter).op = name
TOp == ByteCodeGet(bytecode, TTask.program_counter)

\* the task after the tick of this step
TTaskAfter == cur'[Main][1].task

----------------------------------------------------------------------------
(* JMP *)

\* the tick of this step executes a JMP whose target is there: a literal, or
\* a value on the stack to pop
JumpStep ==
    /\ AtOp("Jump")
    /\ ticked'.n = ticked.n + 1
    /\ TOp.has_target \/ TTask.stack # <<>>

\* the target of the JMP and the stack it leaves to be tested
JumpTarget == IF TOp.has_target THEN TOp.arg ELSE Top(TTask.stack)
JumpStack == IF TOp.has_target THEN TTask.stack ELSE Front(TTask.stack)

\* every condition listed in the flags holds
JumpHolds ==
    /\ ZERO \in TOp.flags => (JumpStack # <<>> /\ Top(JumpStack) = 0)
    /\ FORK \in TOp.flags => TTask.forked

\* what C15 says of a JMP whose operands are there: the tick succeeds with
\* the program counter at the target when the conditions hold and behind the
\* JMP when not, and the stack is left as it is but for the popped target
JumpAsClaimed ==
    /\ ticked'.flow = "Continue"
    /\ TTaskAfter.program_counter =
          IF JumpHolds THEN AsUsize(JumpTarget) ELSE TTask.program_counter + 1
    /\ TTaskAfter.stack = JumpStack
    /\ TTaskAfter.forked = TTask.forked

\* C15 as stated: JMP with empty flags always jumps, on every stack and on
\* the empty one; with flags it jumps if and only if every listed condition
\* holds, ZERO being tested on the top of the stack without popping it; the
\* target is popped if and only if the operand is absent.  (A JMP with the
\* ZERO flag on an empty stack has no value to test and is left out.)
C15_Original ==
    [][(JumpStep /\ (ZERO \in TOp.flags => JumpStack # <<>>)) => JumpAsClaimed]_vars

\* the part of C15 the code keeps: the same, for a JMP that leaves at least
\* one value on the stack
C15_OnNonEmptyStack ==
    [][(JumpStep /\ JumpStack # <<>>) => JumpAsClaimed]_vars

----------------------------------------------------------------------------
(* JSR and RET *)

\* the tick of this step executes a JSR whose target is there, or a RET on a
\* stack that is not empty
JsrStep ==
    /\ AtOp("JumpToSubroutine")
    /\ ticked'.n = ticked.n + 1
    /\ TOp.has_target \/ TTask.stack # <<>>
RetStep ==
    /\ AtOp("Return")
    /\ ticked'.n = ticked.n + 1
    /\ TTask.stack # <<>>

\* C16: JSR takes its target (the literal, else the value popped from the
\* stack), then pushes the index of the instruction that follows the JSR and
\* continues at the target; RET pops the top of the stack and continues at
\* that index.  The value JSR pushes, read back as RET reads it, is the index
\* after the JSR: a RET that finds it on top returns behind the JSR and
\* leaves the stack as it was under the pushed index.
C16_JsrRet ==
    [][/\ JsrStep =>
            LET target == IF TOp.has_target THEN TOp.arg ELSE Top(TTask.stack)
                below == IF TOp.has_target THEN TTask.stack
                         ELSE Front(TTask.stack)
            IN  /\ ticked'.flow = "Continue"
                /\ TTaskAfter.program_counter = AsUsize(target)
                /\ Front(TTaskAfter.stack) = below
                /\ Len(TTaskAfter.stack) = Len(below) + 1
                /\ AsUsize(Top(TTaskAfter.stack)) = TTask.program_counter + 1
       /\ RetStep =>
            /\ ticked'.flow = "Continue"
            /\ TTaskAfter.program_counter = AsUsize(Top(TTask.stack))
            /\ TTaskAfter.stack = Front(TTask.stack)
      ]_vars

\* `JSR 1; RET` started on the stack <<1, 0>>: the JSR at index 0 pushed 1 and
\* jumped to the RET, which popped it and returned to index 1
C16_Witness ==
    /\ bytecode = <<OpJsr(1), OpReturn>>
    /\ ticked.n = 2 /\ ticked.flow = "Continue"
    /\ TTask.program_counter = 1
    /\ TTask.stack = <<1, 0>>

----------------------------------------------------------------------------
(* The subroutine scenario *)

\* the root task has terminated: its Finished entry is in sub_tasks
RootFinished ==
    /\ RootId \in DOMAIN sub_tasks
    /\ sub_tasks[RootId].kind = "Finished"
    /\ sub_tasks[RootId].tasks[1].uid = 1

\* the final stack of the root task
RootStack == sub_tasks[RootId].tasks[1].task.stack

\* C17 as stated: the root task running PUSH 10; JSR 4; HALT; PUSH 1; ADD; RET
\* terminates with final stack [11].
C17_Original ==
    (bytecode = ProgSubroutine /\ RootFinished) => RootStack = <<11>>

\* C17 (amended): JSR pushes the return index on the value stack, on top of
\* the 10, and instructions are indexed from 0, so JSR 4 enters at the ADD:
\* the program as written adds the return index 2 to 10, its RET pops the 12
\* and continues at index 12, beyond the end of the program, and the root
\* terminates with the empty stack.  A subroutine ends with [11] when it
\* moves the return index out of the way: PUSH 10; JSR 3; HALT; BURY 1;
\* PUSH 1; ADD; DREDGE 1; RET.  In both cases no task fails and Vm::run
\* returns Ok.
C17_Subroutine ==
    /\ (bytecode = ProgSubroutine /\ RootFinished) => RootStack = <<>>
    /\ (bytecode = ProgSubroutineBury /\ RootFinished) => RootStack = <<11>>
    /\ bytecode \in {ProgSubroutine, ProgSubroutineBury} =>
          /\ failed = {}
          /\ \A w \in Workers : exit[w].kind \in {"running", "ok"}
          /\ vm.pc = "returned" => (vm.result = "Ok" /\ RootFinished)

\* the run of the program as written has returned, the root's final stack
\* is empty and its program counter is behind the program
C17_Witness ==
    /\ bytecode = ProgSubroutine
    /\ vm.pc = "returned" /\ vm.result = "Ok"
    /\ RootFinished /\ RootStack = <<>>
    /\ sub_tasks[RootId].tasks[1].task.program_counter = 12

----------------------------------------------------------------------------
(* Operand errors *)

\* a tick is made in this step
TickStep == ticked'.n = ticked.n + 1

\* the instructions whose first action is self.pop()
PopsFirst ==
    \/ AtOp("Add") \/ AtOp("Bury") \/ AtOp("Duplicate") \/ AtOp("Pop")
    \/ AtOp("Return") \/ AtOp("Join")
    \/ (AtOp("Jump") \/ AtOp("JumpToSubroutine")) /\ ~TOp.has_target

\* the two ticks in which `self.stack.len() - 1` is computed on an empty
\* stack: DREDGE on the empty stack, and the peek of a JMP that has its
\* target and finds the stack empty
LenMinusOneOnEmpty ==
    \/ AtOp("Dredge") /\ TTask.stack = <<>>
    \/ AtOp("Jump") /\ JumpStep /\ JumpStack = <<>>

\* what C18 says of a tick: it does not panic; an instruction that pops
\* fails with PopFromEmptyStack on the empty stack, ADD also on a stack of
\* one value; BURY(i) with i above the length left after its pop fails with
\* BuryOutOfRange(i); DREDGE(i) with i not below the length fails with
\* DredgeOutOfRange(i); the stack shrinks by no more than it holds
OperandErrorsAsClaimed ==
    /\ ticked'.flow # "Panic"
    /\ (PopsFirst /\ TTask.stack = <<>>) =>
          (ticked'.flow = "Err" /\ ticked'.error = ErrPop)
    /\ (AtOp("Add") /\ Len(TTask.stack) = 1) =>
          (ticked'.flow = "Err" /\ ticked'.error = ErrPop)
    /\ (AtOp("Bury") /\ TTask.stack # <<>>
            /\ (TOp.arg < 0 \/ TOp.arg > Len(TTask.stack) - 1)) =>
          (ticked'.flow = "Err" /\ ticked'.error = ErrBury(TOp.arg))
    /\ (AtOp("Dredge") /\ (TOp.arg < 0 \/ TOp.arg >= Len(TTask.stack))) =>
          (ticked'.flow = "Err" /\ ticked'.error = ErrDredge(TOp.arg))
    /\ (AtOp("Jump") /\ JumpStep /\ ZERO \in TOp.flags /\ JumpStack = <<>>) =>
          (ticked'.flow = "Err" /\ ticked'.error = ErrPeek)

\* C18 as stated: on every stack, the empty one included, and for every
\* operand, a tick whose instruction lacks an operand or has an index out of
\* range returns the error value for it and never panics.
C18_Original ==
    [][TickStep => OperandErrorsAsClaimed]_vars

\* the part of C18 the code keeps: the same for every tick that does not
\* compute `len() - 1` on an empty stack
C18_ExceptLenMinusOne ==
    [][(TickStep /\ ~LenMinusOneOnEmpty) => OperandErrorsAsClaimed]_vars

----------------------------------------------------------------------------
(* Remote execution.  Task orders are put on the shared channel; each remote
   executor takes one, runs Peer::try_run on it and handles the result; the
   local executor takes from the same channel and runs the task itself.  A
   call of the tarpc client either fails with an io error or delivers the
   server's reply. *)

\* the programs the task orders run: one that ends and one that fails
PPrograms == {<<OpPush(1)>>, <<OpPop>>}

PInit == \E bc \in PPrograms : InitWith(bc, FALSE)

PUnchanged ==
    UNCHANGED <<bytecode, overflow_checks, thread_queues, sub_tasks, poisoned, pc,
                cur, scan, exit, vm, next_uid, ids, pushed, returned, dropped,
                failed, alone, ticked, writes, takes, memory, storing, serving>>

\* the task of an order run to its end: Ok(order) with the final task, or
\* Err(e)
OrderOutcome(to) ==
    LET r == TaskRun(to.task, bytecode, overflow_checks)
    IN  IF r.flow = "Err" THEN ReplyErr(r.error)
        ELSE ReplyOk([to EXCEPT !.task = r.task])

\* the value of Peer::run_loop: Err(io error) or Ok(reply)
LoopErr(k) == [io |-> k, reply |-> NoReply]
LoopOk(r) == [io |-> "None", reply |-> r]

TryRun_AllUnknown(v) ==
    IF v.io # "None" THEN RunUnknown
    ELSE IF v.reply.kind = "Ok" THEN RunOk(v.reply.order[1])
    ELSE RunExecution(v.reply.error)

TryRun_IoAsExecution(v) ==
    IF v.io # "None" THEN RunExecution([kind |-> v.io, arg |-> 0])
    ELSE IF v.reply.kind = "Ok" THEN RunOk(v.reply.order[1])
    ELSE RunExecution(v.reply.error)

\* the match of Peer::try_run on the value of run_loop
TryRun(v) ==
    IF v.io = "ConnectionReset" THEN RunConnectionReset
    ELSE IF v.io # "None" THEN RunUnknown
    ELSE IF v.reply.kind = "Ok" THEN RunOk(v.reply.order[1])
    ELSE RunExecution(v.reply.error)

\* try_run of peer p returns, run_loop having ended with v
TryRunReturns(p, v) ==
    remote' = [remote EXCEPT ![p].pc = "returned", ![p].io = v.io,
                             ![p].reply = v.reply, ![p].result = TryRun(v)]

\* push_nonworker(order) by the Vm or the cluster server: a new task order
PushNonworker ==
    /\ orders < MaxOrders
    /\ orders' = orders + 1
    /\ \E b \in BytecodeIds : channel' = Append(channel, TaskOrder(orders + 1, b))
    /\ UNCHANGED <<finished, registry, remote, local, publishes, requeued>>
    /\ PUnchanged

\* a result is published under the task id
Publish(id, r) ==
    /\ finished' = (id :> r) @@ finished
    /\ publishes' =
          (id :> (IF id \in DOMAIN publishes THEN publishes[id] ELSE 0) + 1)
              @@ publishes

\* the remote executor of peer p: wait_next() gives a task order
RemoteWaitNext(p) ==
    /\ remote[p].pc = "wait"
    /\ channel # <<>>
    /\ remote' = [remote EXCEPT ![p] = [RemoteIdle EXCEPT !.pc = "run",
                                                         !.order = <<Head(channel)>>]]
    /\ channel' = Tail(channel)
    /\ UNCHANGED <<finished, registry, local, orders, publishes, requeued>>
    /\ PUnchanged

\* run_loop: client.run_to_completion(..).await?, answered by
\* ClusterServer::run_to_completion
RunToCompletion(p) ==
    /\ remote[p].pc = "run"
    /\ \/ \E k \in IoKinds : TryRunReturns(p, LoopErr(k))
       \/ /\ remote[p].order[1].bytecode_id \notin registry[p]
          /\ remote' = [remote EXCEPT ![p].pc = "define"]
       \/ /\ remote[p].order[1].bytecode_id \in registry[p]
          /\ TryRunReturns(p, LoopOk(OrderOutcome(remote[p].order[1])))
    /\ UNCHANGED <<channel, finished, registry, local, orders, publishes, requeued>>
    /\ PUnchanged

\* mutant of RegistryInsert: the definition is acknowledged but not kept
RegistryInsert_Dropped(reg, id) == reg

\* ClusterServer::define_bytecode: bytecode_registry.insert(id, bytecode)
RegistryInsert(reg, id) == reg \cup {id}

\* run_loop: client.define_bytecode(..).await?, answered by
\* ClusterServer::define_bytecode
DefineBytecode(p) ==
    /\ remote[p].pc = "define"
    /\ \/ /\ \E k \in IoKinds : TryRunReturns(p, LoopErr(k))
          /\ UNCHANGED registry
       \/ /\ registry' = [registry EXCEPT
                             ![p] = RegistryInsert(@, remote[p].order[1].bytecode_id)]
          /\ remote' = [remote EXCEPT ![p].pc = "run", ![p].defines = @ + 1]
    /\ UNCHANGED <<channel, finished, local, orders, publishes, requeued>>
    /\ PUnchanged

\* the remote executor of peer p handles the result of try_run
RemoteHandle(p) ==
    /\ remote[p].pc = "returned"
    /\ LET r == remote[p].result
           o == remote[p].order[1]
       IN  CASE r.kind = "Ok" ->
                  /\ Publish(o.id, ReplyOk(r.order[1]))
                  /\ remote' = [remote EXCEPT ![p] = RemoteIdle]
                  /\ UNCHANGED <<channel, requeued>>
             [] r.kind = "Execution" ->
                  /\ Publish(o.id, ReplyErr(r.error))
                  /\ remote' = [remote EXCEPT ![p] = RemoteIdle]
                  /\ UNCHANGED <<channel, requeued>>
             [] r.kind = "ConnectionReset" ->
                  /\ channel' = Append(channel, o)
                  /\ requeued' = [requeued EXCEPT ![r.kind] = @ \cup {o.id}]
                  /\ remote' = [remote EXCEPT ![p] =
                                   [RemoteIdle EXCEPT !.pc = "stopped"]]
                  /\ UNCHANGED <<finished, publishes>>
             [] r.kind = "Unknown" ->
                  /\ channel' = Append(channel, o)
                  /\ requeued' = [requeued EXCEPT ![r.kind] = @ \cup {o.id}]
                  /\ remote' = [remote EXCEPT ![p] = RemoteIdle]
                  /\ UNCHANGED <<finished, publishes>>
    /\ UNCHANGED <<registry, local, orders>>
    /\ PUnchanged

\* the local executor: next() gives a task order
LocalNext ==
    /\ local = <<>>
    /\ channel # <<>>
    /\ local' = <<Head(channel)>>
    /\ channel' = Tail(channel)
    /\ UNCHANGED <<finished, registry, remote, orders, publishes, requeued>>
    /\ PUnchanged

\* the local executor: run to completion, publish the result
LocalPublish ==
    /\ local # <<>>
    /\ Publish(local[1].id, OrderOutcome(local[1]))
    /\ local' = <<>>
    /\ UNCHANGED <<channel, registry, remote, orders, requeued>>
    /\ PUnchanged

PNext ==
    \/ PushNonworker
    \/ \E p \in Peers : RemoteWaitNext(p)
    \/ \E p \in Peers : RunToCompletion(p)
    \/ \E p \in Peers : DefineBytecode(p)
    \/ \E p \in Peers : RemoteHandle(p)
    \/ LocalNext
    \/ LocalPublish

PSpec == PInit /\ [][PNext]_vars

\* try_run of peer p returns in this step
TryRunReturned(p) == remote[p].pc # "returned" /\ remote'[p].pc = "returned"

\* C19: when try_run returns, a finished remote task gives Ok(task order) for
\* the order that was sent, a failure of the remote task gives Execution(e),
\* an io error of kind ConnectionReset (from either call of the client) gives
\* ConnectionReset, any other io error gives Unknown, and no io error gives
\* Execution.
C19_TryRunOutcomes ==
    [][\A p \in Peers :
          TryRunReturned(p) =>
              LET r == remote'[p]
              IN  /\ (r.io = "None" /\ r.reply.kind = "Ok") =>
                        /\ r.result.kind = "Ok"
                        /\ r.result.order = r.reply.order
                        /\ r.result.order[1].id = remote[p].order[1].id
                  /\ (r.io = "None" /\ r.reply.kind = "Err") =>
                        /\ r.result.kind = "Execution"
                        /\ r.result.error = r.reply.error
                  /\ (r.io = "ConnectionReset") => r.result.kind = "ConnectionReset"
                  /\ (r.io \in IoKinds \ {"ConnectionReset"}) =>
                        r.result.kind = "Unknown"
                  /\ (r.io # "None") => r.result.kind # "Execution"]_vars

\* one try_run has returned ConnectionReset after define_bytecode was
\* accepted, another Execution(e)
C19_Witness ==
    \E p, q \in Peers :
        /\ remote[p].pc = "returned" /\ remote[p].result.kind = "ConnectionReset"
        /\ registry[p] # {}
        /\ remote[q].pc = "returned" /\ remote[q].result.kind = "Execution"

\* the places a task order can be: the channel, an executor, the finished map
OrderPlaces(id) ==
    Cardinality({i \in DOMAIN channel : channel[i].id = id})
      + Cardinality({p \in Peers : remote[p].order # <<>> /\ remote[p].order[1].id = id})
      + (IF local # <<>> /\ local[1].id = id THEN 1 ELSE 0)
      + (IF id \in DOMAIN finished THEN 1 ELSE 0)

\* every task order enqueued is in exactly one place
NotLost == \A id \in 1 .. orders : OrderPlaces(id) = 1

\* a result is published at most once per id, and is the outcome of the task
\* itself
PublishedOnce ==
    /\ DOMAIN finished = DOMAIN publishes
    /\ \A id \in DOMAIN finished :
          /\ publishes[id] = 1
          /\ \E b \in BytecodeIds : finished[id] = OrderOutcome(TaskOrder(id, b))

\* the remote executor of peer p handles a RunError of the transport
HandlesTransportError(p) ==
    /\ remote[p].pc = "returned"
    /\ remote[p].result.kind \in {"ConnectionReset", "Unknown"}
    /\ remote'[p].pc # "returned"

----------------------------------------------------------------------------
(* The end of a worker's run loop *)

\* the task states that have not terminated: held by a thread, in a ready or
\* blocked deque, or in the blocked list of an id
Unfinished ==
    {u \in 1 .. next_uid :
        \/ HeldByThread(u) # {}
        \/ HeldInReady(u) # {}
        \/ HeldInBlocked(u) # {}
        \/ \E id \in DOMAIN sub_tasks :
              /\ sub_tasks[id].kind = "Blocking"
              /\ \E i \in DOMAIN sub_tasks[id].tasks : sub_tasks[id].tasks[i].uid = u}

\* next() returned None to worker w and its run loop ends in this step
StopsOnNone(w) ==
    /\ pc[w] = "got" /\ cur[w] = <<>>
    /\ pc'[w] = "exited"

\* C21 as stated: a worker whose next() finds no work leaves its run loop
\* only when no unfinished task exists; while another worker still holds a
\* task it tries again.
C21_Original ==
    [][\A w \in Workers : StopsOnNone(w) => Unfinished = {}]_vars

----------------------------------------------------------------------------
(* The parent after a fork *)

\* a task state as Execution::Fork pushes the parent: behind a FORK, not
\* forked.  (No program of the model has a JOIN directly behind a FORK, so a
\* task found like this in a deque has not been ticked since its fork.)
ParentBehindFork(ts) ==
    /\ ~ts.task.forked
    /\ ts.task.program_counter > 0
    /\ ByteCodeHas(bytecode, ts.task.program_counter - 1)
    /\ ByteCodeGet(bytecode, ts.task.program_counter - 1).op = "Fork"

\* C22 as stated: the parent pushed by a worker's fork is next executed by
\* that worker; whenever next() returns a parent that has not run since its
\* fork, it returns it from the calling worker's own ready deque (where the
\* fork put it), never from another worker's.
C22_Original ==
    [][\A t \in Workers :
          (Returns(t) /\ cur'[t] # <<>> /\ ParentBehindFork(cur'[t][1]))
              => pc[t] = "own_pop"]_vars

----------------------------------------------------------------------------
(* JOIN with a count larger than the joined stack *)

\* worker w handles Execution::Join in this step and the joined id has a
\* finished entry, whatever the count
JoinOfFinished(w) ==
    /\ pc[w] = "got" /\ cur[w] # <<>> /\ pc'[w] # "got"
    /\ ~poisoned
    /\ RunOf(w).flow = "Return" /\ RunOf(w).execution = "Join"
    /\ RunOf(w).task_id \in DOMAIN sub_tasks
    /\ sub_tasks[RunOf(w).task_id].kind = "Finished"

\* C30 as stated: handling a JOIN(count) of a finished task completes for
\* every count; the worker goes on to its next task, and the joining task is
\* pushed back with at most the values of the joined stack appended.
C30_Original ==
    [][\A w \in Workers : JoinOfFinished(w) =>
          LET S == sub_tasks[RunOf(w).task_id].tasks[1].task.stack
              ready == thread_queues'[w].ready
          IN  /\ pc'[w] = "own_len"
              /\ exit'[w] = NoExit
              /\ ~poisoned'
              /\ ready # <<>>
              /\ ready[Len(ready)].uid = cur[w][1].uid
              /\ Len(ready[Len(ready)].task.stack)
                     <= Len(RunOf(w).task.stack) + Len(S)]_vars

----------------------------------------------------------------------------
(* JMP: the order of the pop and the test *)

\* the tick of this step executes a JMP with the ZERO flag whose target is on
\* the stack
JumpZeroPopStep ==
    /\ TickStep
    /\ AtOp("Jump")
    /\ ~TOp.has_target
    /\ ZERO \in TOp.flags
    /\ TTask.stack # <<>>

\* C23 as stated: a JMP with the ZERO flag and no target operand tests the
\* top of the stack as it is before the target is popped, jumps to the popped
\* target when every condition holds, and pops the target either way.
C23_Original ==
    [][JumpZeroPopStep =>
          LET top == Top(TTask.stack)
              taken == top = 0 /\ (FORK \in TOp.flags => TTask.forked)
          IN  /\ ticked'.flow = "Continue"
              /\ TTaskAfter.stack = Front(TTask.stack)
              /\ TTaskAfter.program_counter =
                    IF taken THEN AsUsize(top)
                    ELSE TTask.program_counter + 1]_vars

----------------------------------------------------------------------------
(* A program counter outside the bytecode *)

\* the index is one of an instruction of the program
InImage(index) == index \in 0 .. Len(bytecode) - 1

\* the tick of this step sends the task to `target`: a JSR or RET, or a JMP
\* whose conditions hold, with its operands there
SentTo(target) ==
    /\ TickStep
    /\ ticked'.flow = "Continue"
    /\ \/ JsrStep /\ target = (IF TOp.has_target THEN TOp.arg ELSE Top(TTask.stack))
       \/ RetStep /\ target = Top(TTask.stack)
       \/ JumpStep /\ JumpStack # <<>> /\ JumpHolds /\ target = JumpTarget

\* C24: a tick of a task whose program counter is not the index of an
\* instruction returns Terminated and leaves the task as it is; and a JMP,
\* JSR or RET whose target value is not such an index, a negative one
\* included, leaves the program counter outside the program, so that the next
\* tick is of that kind.
C24_OutsideImage ==
    [][/\ (TickStep /\ ~InImage(TTask.program_counter)) =>
              /\ ticked'.flow = "Return"
              /\ ticked'.execution = "Terminated"
              /\ TTaskAfter = TTask
       /\ \A target \in I64Min .. I64Max :
              (SentTo(target) /\ ~InImage(target)) =>
                  ~InImage(TTaskAfter.program_counter)]_vars

\* a task sent to the target -1 with a value left on its stack has been
\* ticked again and has terminated there
C24_Witness ==
    /\ ticked.flow = "Return" /\ ticked.execution = "Terminated"
    /\ ticked.n = 2
    /\ TTask.program_counter = UsizeMax
    /\ TTask.stack # <<>>

----------------------------------------------------------------------------
(* UnknownByteCode and define_bytecode *)

\* the bytecode id of the order peer p is running
BytecodeIdOf(p) == remote[p].order[1].bytecode_id

\* C25: a run_to_completion is answered UnknownByteCode only while the
\* remote's registry lacks the order's bytecode id, and the peer then sends
\* define_bytecode; once that is handled the registry holds the id and keeps
\* it, so the retried run is not answered UnknownByteCode; a try_run without
\* io error therefore returns after at most one definition, with the
\* outcome of the order's task.
C25_DefineThenRun ==
    [][\A p \in Peers :
          /\ (remote[p].pc = "run" /\ remote'[p].pc = "define") =>
                BytecodeIdOf(p) \notin registry[p]
          /\ (remote[p].pc = "define" /\ remote'[p].pc = "run") =>
                /\ BytecodeIdOf(p) \in registry'[p]
                /\ remote'[p].order = remote[p].order
          /\ registry[p] \subseteq registry'[p]
          /\ (remote[p].pc = "run" /\ BytecodeIdOf(p) \in registry[p]) =>
                remote'[p].pc # "define"
          /\ (TryRunReturned(p) /\ remote'[p].io = "None") =>
                /\ remote'[p].defines <= 1
                /\ remote'[p].reply = OrderOutcome(remote[p].order[1])
                /\ remote'[p].result.kind \in {"Ok", "Execution"}]_vars

\* one try_run has returned the task's outcome after one definition, and
\* another, on a peer whose registry already had the bytecode, after none
C25_Witness ==
    \E p, q \in Peers :
        /\ remote[p].pc = "returned" /\ remote[p].io = "None"
        /\ remote[p].defines = 1
        /\ remote[q].pc = "returned" /\ remote[q].io = "None"
        /\ remote[q].defines = 0

----------------------------------------------------------------------------
(* Cluster::store.  A STORE is mirrored to the peers one after the other; a
   call of Peer::store either fails with an io error, the request having
   reached the server or not, or is acknowledged. *)

MaxStores == 2

StoreAddrs == {0, 1}
StoreValues == {5, 7}

SInit == InitWith(<<>>, FALSE)

SUnchanged ==
    UNCHANGED <<bytecode, overflow_checks, thread_queues, sub_tasks, poisoned, pc,
                cur, scan, exit, vm, next_uid, ids, pushed, returned, dropped,
                failed, alone, ticked, writes, takes, channel, finished, registry,
                remote, local, orders, publishes, requeued, serving>>

\* the for loop of Cluster::store goes on to the peer after st.peer, or ends
NextPeer(st) ==
    IF st.peer + 1 \in Peers THEN [st EXCEPT !.peer = @ + 1]
    ELSE [st EXCEPT !.pc = "returned"]

\* mutant of OnReset: ConnectionReset ends the whole store
OnReset_Returns(st) ==
    [st EXCEPT !.reset = @ \cup {st.peer}, !.last = "ConnectionReset",
               !.pc = "returned"]

\* Ok(()) => break
OnAck(st) == NextPeer([st EXCEPT !.acked = @ \cup {st.peer}, !.last = "Ok"])

\* Err(e) if e.kind() == ConnectionReset => break
OnReset(st) ==
    NextPeer([st EXCEPT !.reset = @ \cup {st.peer}, !.last = "ConnectionReset"])

\* Err(e) => log::error!, and the loop calls peer.store again
OnOtherError(st, k) == [st EXCEPT !.last = k]

\* ClusterServer::store: self.vm.memory.insert(addr, value)
MemoryInsert(mem, addr, value) == (addr :> value) @@ mem

\* Cluster::store(addr, value) is called
StoreCall ==
    /\ storing.pc \in {"idle", "returned"}
    /\ storing.calls < MaxStores
    /\ \E addr \in StoreAddrs, value \in StoreValues :
          storing' = NextPeer([NotStoring EXCEPT !.pc = "peer", !.addr = addr,
                                                 !.value = value,
                                                 !.calls = storing.calls + 1])
    /\ UNCHANGED memory
    /\ SUnchanged

\* one peer.store(addr, value) of the loop, on the peer at hand
PeerStore ==
    /\ storing.pc = "peer"
    /\ LET p == storing.peer
           written == [memory EXCEPT
                          ![p] = MemoryInsert(@, storing.addr, storing.value)]
       IN  \/ /\ memory' = written
              /\ storing' = OnAck(storing)
           \/ /\ memory' \in {memory, written}
              /\ storing' = OnReset(storing)
           \/ /\ memory' \in {memory, written}
              /\ \E k \in IoKinds \ {"ConnectionReset"} :
                    storing' = OnOtherError(storing, k)
    /\ SUnchanged

SNext == StoreCall \/ PeerStore

SSpec == SInit /\ [][SNext]_vars

\* C26: a peer.store that fails with an error other than ConnectionReset is
\* repeated on the same peer; after an acknowledgement or a ConnectionReset
\* the loop goes on to the next peer, so when store returns every peer has
\* either acknowledged or reported ConnectionReset, and every peer that
\* acknowledged holds the value at the address.
C26_StoreMirrors ==
    [][/\ (storing.pc = "peer" /\ storing'.last \notin {"Ok", "ConnectionReset"}) =>
              /\ storing'.pc = "peer"
              /\ storing'.peer = storing.peer
              /\ storing'.acked = storing.acked /\ storing'.reset = storing.reset
       /\ (storing.pc = "peer" /\ storing'.pc = "peer"
               /\ storing'.peer # storing.peer) =>
              /\ storing.peer \in storing'.acked \cup storing'.reset
              /\ storing'.peer = storing.peer + 1
       /\ (storing.pc = "peer" /\ storing'.pc = "returned") =>
              /\ storing'.acked \cup storing'.reset = Peers
              /\ storing'.acked \cap storing'.reset = {}
              /\ \A p \in storing'.acked :
                    /\ storing'.addr \in DOMAIN memory'[p]
                    /\ memory'[p][storing'.addr] = storing'.value]_vars

\* a store has returned after the first peer reported ConnectionReset without
\* getting the value, and a later peer acknowledged
C26_Witness ==
    /\ storing.pc = "returned"
    /\ 1 \in storing.reset
    /\ storing.addr \notin DOMAIN memory[1]
    /\ storing.acked # {}

----------------------------------------------------------------------------
(* Termination wakes the blocked list *)

\* worker w handles Execution::Terminated in this step and stores the
\* finished entry
StoresFinished(w) ==
    /\ pc[w] = "got" /\ cur[w] # <<>> /\ pc'[w] # "got"
    /\ RunOf(w).flow = "Return" /\ RunOf(w).execution = "Terminated"
    /\ writes'[cur[w][1].id] = writes[cur[w][1].id] + 1

\* the blocked list of id before the step
BlockedOn(id) ==
    IF id \in DOMAIN sub_tasks /\ sub_tasks[id].kind = "Blocking"
    THEN sub_tasks[id].tasks ELSE <<>>

\* C27: the step that stores the finished entry of id X is the step that
\* pushes every task of X's blocked list, in the order of the list, on the
\* ready deque of the terminating worker; the entry of X is then the finished
\* one, which holds the terminated task only, and no other entry changes.  As
\* an entry of sub_tasks is either a blocked list or a finished task, no
\* state has X finished with a task still blocked on X.
C27_NoLostWakeup ==
    [][\A w \in Workers : StoresFinished(w) =>
          LET X == cur[w][1].id
              woken == BlockedOn(X)
          IN  /\ sub_tasks'[X].kind = "Finished"
              /\ sub_tasks'[X].tasks[1].uid = cur[w][1].uid
              /\ \A id \in DOMAIN sub_tasks \ {X} :
                    id \in DOMAIN sub_tasks' /\ sub_tasks'[id] = sub_tasks[id]
              /\ woken # <<>> =>
                    /\ thread_queues'[w].ready = ReadyOf(w) \o woken
                    /\ \A i \in DOMAIN woken :
                          /\ pushed'[woken[i].uid] = pushed[woken[i].uid] + 1
                          /\ \A id \in DOMAIN sub_tasks' :
                                \A j \in DOMAIN sub_tasks'[id].tasks :
                                   sub_tasks'[id].tasks[j].uid # woken[i].uid]_vars

\* two tasks that were blocked on the same id are back on one ready deque, at
\* their JOIN with the id on top, and the entry of the id is the finished one
C27_Witness ==
    \E t \in DOMAIN thread_queues :
      \E i, j \in DOMAIN thread_queues[t].ready :
        /\ i < j
        /\ \A k \in {i, j} :
              LET task == thread_queues[t].ready[k].task
              IN  /\ ByteCodeHas(bytecode, task.program_counter)
                  /\ ByteCodeGet(bytecode, task.program_counter).op = "Join"
                  /\ task.stack # <<>>
                  /\ AsUsize(Top(task.stack)) \in DOMAIN sub_tasks
                  /\ sub_tasks[AsUsize(Top(task.stack))].kind = "Finished"
                  /\ Top(task.stack) =
                        Top(thread_queues[t].ready[i].task.stack)

----------------------------------------------------------------------------
(* A JOIN of an unfinished task *)

\* worker w handles Execution::Join in this step and the joined id has no
\* finished entry
JoinBlocksStep(w) ==
    /\ pc[w] = "got" /\ cur[w] # <<>> /\ pc'[w] # "got"
    /\ ~poisoned
    /\ RunOf(w).flow = "Return" /\ RunOf(w).execution = "Join"
    /\ \/ RunOf(w).task_id \notin DOMAIN sub_tasks
       \/ sub_tasks[RunOf(w).task_id].kind = "Blocking"

\* C28: a JOIN of a task that has not finished stores the joining task at the
\* end of the blocked list of the joined id and in no queue; the stored task
\* is the task as it was before the JOIN (program counter at the JOIN, the
\* task id back on the stack), and its next tick is the same JOIN with the
\* same task id and count.
C28_BlockedAsBefore ==
    [][\A w \in Workers : JoinBlocksStep(w) =>
          LET id == RunOf(w).task_id
              count == RunOf(w).count
              before == BeforeYield(cur[w][1].task)
              old == BlockedOn(id)
          IN  /\ id \in DOMAIN sub_tasks'
              /\ sub_tasks'[id].kind = "Blocking"
              /\ sub_tasks'[id].tasks =
                    old \o <<TaskState(cur[w][1].id, cur[w][1].uid, before)>>
              /\ thread_queues' = thread_queues
              /\ cur'[w] = <<>>
              /\ LET stored == sub_tasks'[id].tasks[Len(old) + 1].task
                     again == Tick(stored, bytecode, overflow_checks)
                 IN  /\ ByteCodeGet(bytecode, stored.program_counter).op = "Join"
                     /\ Top(stored.stack) = AsI64(id)
                     /\ again.flow = "Return" /\ again.execution = "Join"
                     /\ again.task_id = id /\ again.count = count]_vars

\* a task is stored in the blocked list of the id it joins, at its JOIN and
\* with the id on top of its stack
C28_Witness ==
    \E id \in DOMAIN sub_tasks :
        /\ sub_tasks[id].kind = "Blocking"
        /\ \E i \in DOMAIN sub_tasks[id].tasks :
              LET ts == sub_tasks[id].tasks[i]
              IN  /\ ByteCodeGet(bytecode, ts.task.program_counter).op = "Join"
                  /\ AsUsize(Top(ts.task.stack)) = id

----------------------------------------------------------------------------
(* The run as a whole *)

\* the programs in which no task fails, every JOIN targets a task that
\* terminates and every task id is joined at most once
WellJoined == {ProgForkJoin, ProgPrePush, ProgNested, ProgNoJoin}

\* no two tasks were given the same id
DistinctIds ==
    \A u, v \in 1 .. next_uid : u # v => ids[u] # ids[v]

\* every created task has run to termination: none is held by a worker, a
\* deque or a blocked list, and a finished entry was stored under its id
AllTerminated ==
    /\ Unfinished = {}
    /\ \A u \in 1 .. next_uid : writes[ids[u]] >= 1

\* C29 as stated: for a program in which no task fails, every JOIN targets a
\* task that terminates and every id is joined at most once, Vm::run returns
\* Ok, and when it has returned every created task has run to termination and
\* none is left in a ready deque, a blocked queue or a blocked list.
C29_Original ==
    (bytecode \in WellJoined /\ vm.pc = "returned") =>
        (vm.result = "Ok" /\ AllTerminated)

\* what the code does guarantee: the same, for the runs in which the ids drawn
\* at the FORKs happen to be distinct
C29_WithDistinctIds ==
    (bytecode \in WellJoined /\ vm.pc = "returned" /\ DistinctIds) =>
        (vm.result = "Ok" /\ AllTerminated)

----------------------------------------------------------------------------
(* Specification of the cluster server of one Vm: calls of run_to_completion
   and define_bytecode arrive from clients, each call of run_to_completion
   with an order whose task id the client chose, so two calls may carry the
   same id; the executor of the Vm takes the orders from the channel and
   publishes their results in the finished map. *)

\* the peer whose server is modelled
Server == CHOOSE p \in Peers : \A q \in Peers : p <= q

RUnchanged ==
    UNCHANGED <<bytecode, overflow_checks, thread_queues, sub_tasks, poisoned, pc,
                cur, scan, exit, vm, next_uid, ids, pushed, returned, dropped,
                failed, alone, ticked, writes, takes, remote, local, publishes,
                requeued, memory, storing>>

\* mutant of FinishedRemove: the entry is read and stays in the map
FinishedRemove_Keeps(fin, id) == fin

\* self.vm.finished.remove(&id)
FinishedRemove(fin, id) == [k \in DOMAIN fin \ {id} |-> fin[k]]

\* ClusterServer::run_to_completion is called: the registry check and
\* push_nonworker
ServeCall(c) ==
    /\ serving[c].pc = "idle"
    /\ \E id \in 1 .. MaxOrders, b \in BytecodeIds :
          LET task_order == TaskOrder(id, b)
          IN  IF b \notin registry[Server]
              THEN \* return Err(UnknownByteCode(task_order.bytecode_id))
                   /\ serving' = [serving EXCEPT ![c] =
                         [NotCalled EXCEPT !.pc = "returned",
                                           !.order = <<task_order>>,
                                           !.unknown = <<b>>]]
                   /\ UNCHANGED <<channel, orders>>
              ELSE /\ channel' = Append(channel, task_order)
                   /\ orders' = orders + 1
                   /\ serving' = [serving EXCEPT ![c] =
                         [NotCalled EXCEPT !.pc = "poll",
                                           !.order = <<task_order>>,
                                           !.pushes = 1]]
    /\ UNCHANGED <<finished, registry>>
    /\ RUnchanged

\* ClusterServer::run_to_completion, one round of the loop that finds the
\* entry: finished.remove(&id) is Some, return Ok(task_order.1)
ServePoll(c) ==
    /\ serving[c].pc = "poll"
    /\ serving[c].order[1].id \in DOMAIN finished
    /\ finished' = FinishedRemove(finished, serving[c].order[1].id)
    /\ serving' = [serving EXCEPT ![c].pc = "returned",
                                  ![c].reply = finished[serving[c].order[1].id],
                                  ![c].removes = @ + 1]
    /\ UNCHANGED <<channel, registry, orders>>
    /\ RUnchanged

\* ClusterServer::define_bytecode is called
ServeDefine ==
    /\ \E b \in BytecodeIds :
          registry' = [registry EXCEPT ![Server] = RegistryInsert(@, b)]
    /\ UNCHANGED <<channel, finished, orders, serving>>
    /\ RUnchanged

RInit == PInit

RNext ==
    \/ \E c \in Calls : ServeCall(c)
    \/ \E c \in Calls : ServePoll(c)
    \/ ServeDefine
    \/ LocalNext
    \/ LocalPublish

RSpec == RInit /\ [][RNext]_vars

\* call c arrives in this step
CallArrives(c) == serving[c].pc = "idle" /\ serving'[c].pc # "idle"

\* call c returns in this step
CallReturns(c) == serving[c].pc # "returned" /\ serving'[c].pc = "returned"

\* the results published under id and the calls that returned one of them
DeliveredOf(id) ==
    {c \in Calls : /\ serving[c].pc = "returned"
                   /\ serving[c].reply # NoReply
                   /\ serving[c].order[1].id = id}

\* C31: a call of run_to_completion whose bytecode id is not in the registry
\* returns UnknownByteCode(bytecode_id) at once and changes neither the queue
\* nor the finished map nor the registry; any other call enqueues its order
\* once, does not return at that point, enqueues nothing more while it polls,
\* and returns only in a step in which the finished map has an entry under the
\* order's id: it returns that entry's value and removes the entry, leaving
\* the other entries alone.  No more results are delivered for an id than
\* were published under it.
C31_RunToCompletion ==
    /\ [](\A id \in DOMAIN publishes :
             Cardinality(DeliveredOf(id))
                 + (IF id \in DOMAIN finished THEN 1 ELSE 0) <= publishes[id])
    /\ [][\A c \in Calls :
            /\ CallArrives(c) =>
                  LET task_order == serving'[c].order[1]
                  IN  IF task_order.bytecode_id \notin registry[Server]
                      THEN /\ serving'[c].pc = "returned"
                           /\ serving'[c].unknown = <<task_order.bytecode_id>>
                           /\ serving'[c].reply = NoReply
                           /\ serving'[c].pushes = 0
                           /\ UNCHANGED <<channel, finished, registry>>
                      ELSE /\ serving'[c].pc = "poll"
                           /\ serving'[c].pushes = 1
                           /\ channel' = Append(channel, task_order)
                           /\ UNCHANGED <<finished, registry>>
            /\ (serving[c].pc = "poll" /\ serving'[c].pc = "poll") =>
                  serving'[c] = serving[c]
            /\ (serving[c].pc = "poll" /\ CallReturns(c)) =>
                  LET id == serving[c].order[1].id
                  IN  /\ id \in DOMAIN finished
                      /\ serving'[c].reply = finished[id]
                      /\ serving'[c].unknown = <<>>
                      /\ serving'[c].pushes = 1
                      /\ serving'[c].removes = 1
                      /\ id \notin DOMAIN finished'
                      /\ \A k \in DOMAIN finished \ {id} :
                            k \in DOMAIN finished' /\ finished'[k] = finished[k]
                      /\ UNCHANGED channel]_vars

\* one call returned UnknownByteCode, another call was answered with the
\* result of its task while a third party, a call with the same task id, is
\* still polling, and the entry is gone from the finished map
C31_Witness ==
    \E c, d, e \in Calls :
        /\ serving[c].pc = "returned" /\ serving[c].unknown # <<>>
        /\ serving[d].pc = "returned" /\ serving[d].reply # NoReply
        /\ serving[e].pc = "poll"
        /\ serving[e].order[1].id = serving[d].order[1].id
        /\ serving[d].order[1].id \notin DOMAIN finished

=============================================================================
